---- MODULE Spec2Model ----
(***************************************************************************)
(* Model of the session core of adk_ui_starter:                            *)
(*   core/state_machine.py        StateMachine, SessionStateManager        *)
(*   services/photon_service.py   PhotonService (metered billing)          *)
(*   websocket-server-refactored.py  SessionManager, websocket_endpoint    *)
(*                                                                         *)
(*   services/message_service.py  MessageService (charging of a turn)      *)
(*   core/event_handlers.py       ToolEventProcessor                       *)
(*                                                                         *)
(* The specifications share the variables:                                 *)
(*   SpecSM       one StateMachine driven by arbitrary calls               *)
(*   SpecBilling  one PhotonService driven by arbitrary charge calls       *)
(*   SpecConn     one connection of the refactored websocket server        *)
(*   SpecMetering the turns of two connections charged through the         *)
(*                process-wide photon service                              *)
(*   SpecTools    one ToolEventProcessor driven by arbitrary events        *)
(*   SpecGuard    one StateMachine with an added guarded transition        *)
(*   SpecTurn     the event streams of the turns of one MessageService     *)
(*   SpecLegacy   the turns of one connection of websocket-server.py       *)
(*   SpecCarry    one PhotonService charged repeatedly for the same usage   *)
(*   SpecExtract  the scan for the final text of a stream of events        *)
(***************************************************************************)
EXTENDS Integers, Sequences, FiniteSets, TLC

VARIABLES
    sm,        \* SpecSM: the StateMachine object (current_state, state_history, state_data)
    sm_call,   \* SpecSM: the last call made on it, with the object as it was before
    photon,    \* SpecBilling, SpecCarry: the PhotonService, its configuration and the audit of its calls
    conn,      \* SpecConn: the ConnectionContext, its transport and its background tasks
    pm,        \* SpecConn: the frame of the request being handled by websocket_endpoint
    meter,     \* SpecMetering: the process-wide photon service and the connections charging through it
    tracker    \* SpecTools: the ToolEventProcessor of one connection and its clock;
               \* SpecTurn: the MessageService of one connection and its turn;
               \* SpecExtract: a stream of events and the texts extracted from it

vars == <<sm, sm_call, photon, conn, pm, meter, tracker>>
smVars == <<sm, sm_call>>
billVars == <<photon>>
connVars == <<conn, pm>>
meterVars == <<meter>>
trackVars == <<tracker>>

None == "None"

(***************************************************************************)
(* core/state_machine.py                                                   *)
(***************************************************************************)

\* SessionState enum values
INITIALIZING == "initializing"
READY == "ready"
PROCESSING == "processing"
WAITING_FOR_TOOL == "waiting_for_tool"
ERROR == "error"
CLOSED == "closed"

SessionState == {INITIALIZING, READY, PROCESSING, WAITING_FOR_TOOL, ERROR, CLOSED}

\* StateTransition(from_state, to_state, condition=None, action=None, description)
StateTransition(from, to, description) ==
    [from_state |-> from, to_state |-> to, condition |-> None, action |-> None,
     description |-> description]

\* Mutant: the table with an extra edge INITIALIZING -> ERROR.
DefaultTransitions_extraEdge ==
    << StateTransition(INITIALIZING, READY, "Session initialization completed"),
       StateTransition(READY, PROCESSING, "Message processing started"),
       StateTransition(PROCESSING, WAITING_FOR_TOOL, "Tool execution started"),
       StateTransition(WAITING_FOR_TOOL, PROCESSING, "Tool execution completed"),
       StateTransition(PROCESSING, READY, "Message processing completed"),
       StateTransition(PROCESSING, ERROR, "Error occurred during processing"),
       StateTransition(ERROR, READY, "Error recovered, returning to ready state"),
       StateTransition(READY, CLOSED, "Session closed"),
       StateTransition(INITIALIZING, ERROR, "Initialization failed") >>

\* Mutant: the table with an edge out of CLOSED.
DefaultTransitions_reopen ==
    << StateTransition(INITIALIZING, READY, "Session initialization completed"),
       StateTransition(READY, PROCESSING, "Message processing started"),
       StateTransition(PROCESSING, WAITING_FOR_TOOL, "Tool execution started"),
       StateTransition(WAITING_FOR_TOOL, PROCESSING, "Tool execution completed"),
       StateTransition(PROCESSING, READY, "Message processing completed"),
       StateTransition(PROCESSING, ERROR, "Error occurred during processing"),
       StateTransition(ERROR, READY, "Error recovered, returning to ready state"),
       StateTransition(READY, CLOSED, "Session closed"),
       StateTransition(CLOSED, READY, "Session reopened") >>

\* StateMachine._setup_default_transitions: the list self.transitions, in order
DefaultTransitions ==
    << StateTransition(INITIALIZING, READY, "Session initialization completed"),
       StateTransition(READY, PROCESSING, "Message processing started"),
       StateTransition(PROCESSING, WAITING_FOR_TOOL, "Tool execution started"),
       StateTransition(WAITING_FOR_TOOL, PROCESSING, "Tool execution completed"),
       StateTransition(PROCESSING, READY, "Message processing completed"),
       StateTransition(PROCESSING, ERROR, "Error occurred during processing"),
       StateTransition(ERROR, READY, "Error recovered, returning to ready state"),
       StateTransition(READY, CLOSED, "Session closed") >>

\* StateMachine.__init__(initial_state)
NewStateMachine(initial_state) ==
    [current_state |-> initial_state, state_history |-> << >>, state_data |-> {}]

\* self.transitions: the default table, followed by the transitions added
\* with add_transition.  A machine on which add_transition was never called
\* carries no field "added".
Transitions(m) ==
    IF "added" \in DOMAIN m THEN DefaultTransitions \o m.added
    ELSE DefaultTransitions

\* StateMachine.add_transition(from_state, to_state, condition, action).
\* A condition is None or a callable, given by its outcome "true", "false"
\* or "raise"; an action is None or a callable, "ok" or "raise".
add_transition(m, from_state, to_state, condition, action) ==
    [current_state |-> m.current_state,
     state_history |-> m.state_history,
     state_data |-> m.state_data,
     added |-> Append(IF "added" \in DOMAIN m THEN m.added ELSE << >>,
                      [from_state |-> from_state, to_state |-> to_state,
                       condition |-> condition, action |-> action,
                       description |-> ""])]

\* The loop "for t in self.transitions: if t.from_state == current and
\* t.to_state == target": index of the first matching transition, 0 if none.
FindTransition(m, target_state) ==
    LET I == { i \in 1..Len(Transitions(m)) :
                  /\ Transitions(m)[i].from_state = m.current_state
                  /\ Transitions(m)[i].to_state = target_state }
    IN IF I = {} THEN 0 ELSE CHOOSE i \in I : \A j \in I : i <= j

\* Mutant: the condition of the transition is not consulted.
can_transition_to_ignoreCondition(m, target_state) ==
    FindTransition(m, target_state) # 0

\* StateMachine.can_transition_to.  A condition is None, or a callable whose
\* outcome is "true", "false" or "raise" (a raise is caught and gives False).
can_transition_to(m, target_state) ==
    LET i == FindTransition(m, target_state)
    IN IF i = 0 THEN FALSE
       ELSE IF Transitions(m)[i].condition # None
            THEN Transitions(m)[i].condition = "true"
            ELSE TRUE

\* Mutant: the state changes but no history entry is recorded.
transition_to_noHistory(m, target_state, reason) ==
    IF ~can_transition_to(m, target_state) THEN <<FALSE, m, FALSE>>
    ELSE <<TRUE, [m EXCEPT !.current_state = target_state], FALSE>>

\* StateMachine.transition_to: <<return value, machine after the call,
\* whether the transition's action was called>>.
\* A history entry is (old_state, timestamp, reason or description); the
\* timestamp (datetime.now()) is not modelled.
transition_to(m, target_state, reason) ==
    IF ~can_transition_to(m, target_state) THEN <<FALSE, m, FALSE>>
    ELSE LET t == Transitions(m)[FindTransition(m, target_state)]
         IN IF t.action = "raise" THEN <<FALSE, m, TRUE>>
            ELSE <<TRUE,
                   [m EXCEPT !.current_state = target_state,
                             !.state_history = Append(@,
                                 [state |-> m.current_state,
                                  reason |-> IF reason # "" THEN reason
                                             ELSE t.description])],
                   t.action # None>>

\* Mutant: the reset starts a new history.
reset_to_state_clearHistory(m, state, reason) ==
    IF state \in {READY, INITIALIZING}
    THEN <<TRUE, [m EXCEPT !.current_state = state,
                           !.state_history = << [state |-> state,
                                                 reason |-> reason] >>,
                           !.state_data = {}]>>
    ELSE <<FALSE, m>>

\* StateMachine.reset_to_state: the entry appended holds self.current_state
\* read after the assignment, that is the new state.
reset_to_state(m, state, reason) ==
    IF state \in {READY, INITIALIZING}
    THEN <<TRUE, [m EXCEPT !.current_state = state,
                           !.state_history = Append(@, [state |-> state,
                                                        reason |-> reason]),
                           !.state_data = {}]>>
    ELSE <<FALSE, m>>

\* StateMachine.set_state_data(key, value): the set of keys present
set_state_data(m, key) == [m EXCEPT !.state_data = @ \cup {key}]

(***************************************************************************)
(* SpecSM: one state machine, any sequence of calls                        *)
(***************************************************************************)

\* Bound on the length of state_history explored
MaxHistory == 4

Reasons == {"", "caller reason"}
DataKeys == {"k1", "k2"}

NoCall == [op |-> None, arg |-> None, ret |-> FALSE, before |-> NewStateMachine(INITIALIZING)]

InitSM ==
    /\ sm = NewStateMachine(INITIALIZING)
    /\ sm_call = NoCall
    /\ photon = None
    /\ conn = None
    /\ pm = None
    /\ meter = None
    /\ tracker = None

SMTransitionTo ==
    \E target \in SessionState, reason \in Reasons :
        /\ Len(sm.state_history) < MaxHistory
        /\ LET r == transition_to(sm, target, reason)
           IN /\ sm' = r[2]
              /\ sm_call' = [op |-> "transition_to", arg |-> target,
                             ret |-> r[1], before |-> sm]
        /\ UNCHANGED <<billVars, connVars, meterVars, trackVars>>

SMResetToState ==
    \E state \in SessionState :
        /\ Len(sm.state_history) < MaxHistory
        /\ LET r == reset_to_state(sm, state, "Manual reset")
           IN /\ sm' = r[2]
              /\ sm_call' = [op |-> "reset_to_state", arg |-> state,
                             ret |-> r[1], before |-> sm]
        /\ UNCHANGED <<billVars, connVars, meterVars, trackVars>>

SMSetStateData ==
    \E key \in DataKeys :
        /\ key \notin sm.state_data
        /\ sm' = set_state_data(sm, key)
        /\ sm_call' = [op |-> "set_state_data", arg |-> key,
                       ret |-> TRUE, before |-> sm]
        /\ UNCHANGED <<billVars, connVars, meterVars, trackVars>>

NextSM == SMTransitionTo \/ SMResetToState \/ SMSetStateData

SpecSM == InitSM /\ [][NextSM]_vars

\* The eight edges of the transition table of the specification
TableEdges ==
    { <<INITIALIZING, READY>>, <<READY, PROCESSING>>,
      <<PROCESSING, WAITING_FOR_TOOL>>, <<WAITING_FOR_TOOL, PROCESSING>>,
      <<PROCESSING, READY>>, <<PROCESSING, ERROR>>,
      <<ERROR, READY>>, <<READY, CLOSED>> }

\* C1: transition_to(T) from state S returns false and leaves the current
\* state and the history unchanged when (S,T) is not one of the eight table
\* edges; when it is one, it returns true and the current state becomes T.
C1_TableDecidesTransition ==
    sm_call.op = "transition_to" =>
        IF <<sm_call.before.current_state, sm_call.arg>> \in TableEdges
        THEN sm_call.ret /\ sm.current_state = sm_call.arg
        ELSE /\ ~sm_call.ret
             /\ sm.current_state = sm_call.before.current_state
             /\ sm.state_history = sm_call.before.state_history

\* C1 witness: a rejected call from PROCESSING (reached through accepted edges)
C1_Witness ==
    /\ sm_call.op = "transition_to"
    /\ sm_call.before.current_state = PROCESSING
    /\ sm_call.arg = CLOSED
    /\ ~sm_call.ret
    /\ Len(sm.state_history) >= 2

\* C2: in CLOSED every transition attempt is rejected: can_transition_to is
\* false for every target, transition_to returns false, and the current
\* state and the history stay as they were.
C2_ClosedRejectsAll ==
    /\ sm.current_state = CLOSED =>
           \A t \in SessionState : ~can_transition_to(sm, t)
    /\ (sm_call.op = "transition_to" /\ sm_call.before.current_state = CLOSED) =>
           /\ ~sm_call.ret
           /\ sm.current_state = CLOSED
           /\ sm.state_history = sm_call.before.state_history

\* C2 witness: a transition was attempted on a machine in CLOSED
C2_Witness ==
    /\ sm_call.op = "transition_to"
    /\ sm_call.before.current_state = CLOSED
    /\ sm_call.arg = READY
    /\ sm.current_state = CLOSED

(***************************************************************************)
(* services/photon_service.py                                              *)
(*                                                                         *)
(* Money is counted in micro-yuan (1e-6 RMB), so that every rate of the    *)
(* code is an integer and the arithmetic is exact: 0.006 RMB per 1000      *)
(* tokens is 6 micro-yuan per token, photon_to_rmb_rate = 0.01 RMB is      *)
(* 10000 micro-yuan.  The binary rounding of Python floats is not          *)
(* modelled.  Token and tool-call counts are naturals, as the callers      *)
(* produce them (sums of token counts, len() of a list).                   *)
(***************************************************************************)

\* PhotonChargeConfig.photon_to_rmb_rate = 0.01 RMB, in micro-yuan
PhotonToRmbRate == 10000

\* The hard ceiling min(50, photons_to_charge)
MaxPhotonsPerCharge == 50

\* Mutant: the tier limits are exclusive.
TierRates_exclusiveLimits(input_tokens) ==
    IF input_tokens < 32000 THEN <<6, 24>>
    ELSE IF input_tokens < 128000 THEN <<10, 40>>
    ELSE <<15, 60>>

\* Tiered rates selected by input_tokens, micro-yuan per token:
\* <<input_rate, output_rate>>
TierRates(input_tokens) ==
    IF input_tokens <= 32000 THEN <<6, 24>>
    ELSE IF input_tokens <= 128000 THEN <<10, 40>>
    ELSE <<15, 60>>

\* input_cost + output_cost + tool_cost (tool_cost = 0.0), before carry-over
RawCost(input_tokens, output_tokens, tool_calls) ==
    input_tokens * TierRates(input_tokens)[1]
        + output_tokens * TierRates(input_tokens)[2] + 0

\* Python int(x / d) for an exact quotient: truncation toward zero
IntTrunc(x, d) == IF x >= 0 THEN x \div d ELSE -((-x) \div d)

Max(a, b) == IF a >= b THEN a ELSE b
Min(a, b) == IF a <= b THEN a ELSE b

\* Mutant: a computation that bills nothing leaves the carried value alone.
calculate_charge_amount_dropFraction(accumulated_cost, min_charge, input_tokens, output_tokens, tool_calls) ==
    IF input_tokens <= 0 /\ output_tokens <= 0 /\ tool_calls <= 0
    THEN [photons |-> 0, rmb |-> 0, accumulated_cost |-> accumulated_cost,
          computed |-> FALSE]
    ELSE LET total == RawCost(input_tokens, output_tokens, tool_calls) + accumulated_cost
             whole == IntTrunc(total, PhotonToRmbRate)
             photons == IF whole > 0
                        THEN Min(MaxPhotonsPerCharge, Max(min_charge, whole))
                        ELSE whole
         IN [photons |-> photons, rmb |-> photons * PhotonToRmbRate,
             accumulated_cost |-> IF whole > 0 THEN total - whole * PhotonToRmbRate
                                  ELSE accumulated_cost,
             computed |-> TRUE]

\* Mutant: no ceiling on the photons of one call.
calculate_charge_amount_noCeiling(accumulated_cost, min_charge, input_tokens, output_tokens, tool_calls) ==
    IF input_tokens <= 0 /\ output_tokens <= 0 /\ tool_calls <= 0
    THEN [photons |-> 0, rmb |-> 0, accumulated_cost |-> accumulated_cost,
          computed |-> FALSE]
    ELSE LET total == RawCost(input_tokens, output_tokens, tool_calls) + accumulated_cost
             whole == IntTrunc(total, PhotonToRmbRate)
             photons == IF whole > 0 THEN Max(min_charge, whole) ELSE whole
         IN [photons |-> photons, rmb |-> photons * PhotonToRmbRate,
             accumulated_cost |-> total - whole * PhotonToRmbRate,
             computed |-> TRUE]

\* Mutant: the carried value is the whole cost, the billed part not removed.
calculate_charge_amount_keepAll(accumulated_cost, min_charge, input_tokens, output_tokens, tool_calls) ==
    IF input_tokens <= 0 /\ output_tokens <= 0 /\ tool_calls <= 0
    THEN [photons |-> 0, rmb |-> 0, accumulated_cost |-> accumulated_cost,
          computed |-> FALSE]
    ELSE LET total == RawCost(input_tokens, output_tokens, tool_calls) + accumulated_cost
             whole == IntTrunc(total, PhotonToRmbRate)
             photons == IF whole > 0
                        THEN Min(MaxPhotonsPerCharge, Max(min_charge, whole))
                        ELSE whole
         IN [photons |-> photons, rmb |-> photons * PhotonToRmbRate,
             accumulated_cost |-> total, computed |-> TRUE]

\* PhotonService.calculate_charge_amount: the returned (photons, rmb amount)
\* and the new self.accumulated_cost.  computed = FALSE marks the early
\* return that leaves the accumulator untouched.
calculate_charge_amount(accumulated_cost, min_charge, input_tokens, output_tokens, tool_calls) ==
    IF input_tokens <= 0 /\ output_tokens <= 0 /\ tool_calls <= 0
    THEN [photons |-> 0, rmb |-> 0, accumulated_cost |-> accumulated_cost,
          computed |-> FALSE]
    ELSE LET total == RawCost(input_tokens, output_tokens, tool_calls) + accumulated_cost
             \* total_photons_float = total / rate; photons_to_charge = int(..)
             whole == IntTrunc(total, PhotonToRmbRate)
             \* (total_photons_float - photons_to_charge) * rate
             carried == total - whole * PhotonToRmbRate
             photons == IF whole > 0
                        THEN Min(MaxPhotonsPerCharge, Max(min_charge, whole))
                        ELSE whole
         IN [photons |-> photons, rmb |-> photons * PhotonToRmbRate,
             accumulated_cost |-> carried, computed |-> TRUE]

\* PhotonService.get_access_key(request, context): the context's
\* app_access_key when the context has that attribute and it is set, else the
\* request's appAccessKey cookie, else the configured developer key, else None.
get_access_key(cookie_key, context_key, dev_access_key) ==
    IF context_key # None THEN context_key
    ELSE IF cookie_key # None THEN cookie_key
    ELSE IF dev_access_key # None THEN dev_access_key
    ELSE None

\* PhotonChargeResult (message and data left out); biz_no is None or "biz"
\* for a generated business number; amounts in photons and micro-yuan.
PhotonChargeResult(success, code, biz_no, photon_amount, rmb_amount) ==
    [success |-> success, code |-> code, biz_no |-> biz_no,
     photon_amount |-> photon_amount, rmb_amount |-> rmb_amount]

\* PhotonChargeRequest as sent to the backend; NoRequest when none was sent
PhotonChargeRequest(access_key, event_value) ==
    [sent |-> TRUE, access_key |-> access_key, event_value |-> event_value]

NoRequest == [sent |-> FALSE, access_key |-> None, event_value |-> 0]

\* What the billing backend (or the transport to it) does with one request
BackendOutcomes == {"code0", "code_nonzero", "timeout", "transport_error"}

\* Mutant: every answer of the backend counts as a success.
send_charge_request_anyCode(outcome, event_value) ==
    IF outcome \in {"code0", "code_nonzero"}
    THEN PhotonChargeResult(TRUE, 0, "biz", event_value, event_value * PhotonToRmbRate)
    ELSE PhotonChargeResult(FALSE, -1, "biz", event_value, event_value * PhotonToRmbRate)

\* PhotonService._send_charge_request: the result built from the outcome
send_charge_request(outcome, event_value) ==
    IF outcome = "code0"
    THEN PhotonChargeResult(TRUE, 0, "biz", event_value, event_value * PhotonToRmbRate)
    ELSE IF outcome = "code_nonzero"
    THEN PhotonChargeResult(FALSE, 1001, "biz", event_value, event_value * PhotonToRmbRate)
    ELSE PhotonChargeResult(FALSE, -1, "biz", event_value, event_value * PhotonToRmbRate)

\* Mutant: without a credential the call goes through as a free pass.
charge_photon_freePass(p, input_tokens, output_tokens, tool_calls, cookie_key, context_key, outcome) ==
    LET access_key == get_access_key(cookie_key, context_key, p.dev_access_key)
        c == calculate_charge_amount(p.accumulated_cost, p.min_charge,
                                     input_tokens, output_tokens, tool_calls)
    IN IF access_key = None \/ c.photons <= 0
       THEN [accumulated_cost |-> c.accumulated_cost, computed |-> c.computed,
             request |-> NoRequest,
             result |-> PhotonChargeResult(TRUE, 0, None, 0, 0)]
       ELSE [accumulated_cost |-> c.accumulated_cost, computed |-> c.computed,
             request |-> PhotonChargeRequest(access_key, c.photons),
             result |-> [send_charge_request(outcome, c.photons)
                            EXCEPT !.photon_amount = c.photons, !.rmb_amount = c.rmb]]

\* PhotonService.charge_photon with custom_amount = None (no caller passes
\* one).  p is the service (accumulated_cost, config); the value is the
\* service after the call together with the result and what was sent.
charge_photon(p, input_tokens, output_tokens, tool_calls, cookie_key, context_key, outcome) ==
    LET access_key == get_access_key(cookie_key, context_key, p.dev_access_key)
        c == calculate_charge_amount(p.accumulated_cost, p.min_charge,
                                     input_tokens, output_tokens, tool_calls)
    IN IF access_key = None
       THEN [accumulated_cost |-> p.accumulated_cost, computed |-> FALSE,
             request |-> NoRequest,
             result |-> PhotonChargeResult(FALSE, -1, None, 0, 0)]
       ELSE IF c.photons <= 0
       THEN [accumulated_cost |-> c.accumulated_cost, computed |-> c.computed,
             request |-> NoRequest,
             result |-> PhotonChargeResult(TRUE, 0, None, 0, 0)]
       ELSE [accumulated_cost |-> c.accumulated_cost, computed |-> c.computed,
             request |-> PhotonChargeRequest(access_key, c.photons),
             result |-> [send_charge_request(outcome, c.photons)
                            EXCEPT !.photon_amount = c.photons, !.rmb_amount = c.rmb]]

(***************************************************************************)
(* SpecBilling: one PhotonService, any sequence of charge_photon calls     *)
(***************************************************************************)

\* Bound on the number of charge_photon calls explored
MaxCharges == 3

\* Usage of one call.  100/50 is the example of the specification (cost
\* 0.0018); 2000 input tokens cost 1.2 photons; 32000 and 128000 are the
\* last values of the first and second tier, 130000 is in the third; the
\* last two cost more than 50 photons.
OutputTokenValues == {0, 50}
TierInputValues == {32000, 128000, 130000}

\* <<input_tokens, output_tokens, tool_calls>> of one call: no usage at all,
\* tool calls only, output only, and each input value without and with
\* output tokens
UsageValues ==
    {<<0, 0, 0>>, <<0, 0, 1>>, <<0, 50, 0>>, <<100, 50, 0>>,
     <<2000, 0, 0>>, <<2000, 50, 1>>}
    \cup {<<i, o, 0>> : i \in TierInputValues, o \in OutputTokenValues}

\* PHOTON_MIN_CHARGE (default "1", any integer; 60 is above the ceiling)
\* and PHOTON_DEV_ACCESS_KEY (default unset)
MinChargeValues == {1, 3, 60}
DevAccessKeyValues == {None, "dev_key"}
ContextKeyValues == {None, "user_key"}

\* The record of "no call made yet"
NoCharge ==
    [made |-> FALSE, input_tokens |-> 0, output_tokens |-> 0, tool_calls |-> 0,
     context_key |-> None, outcome |-> None, raw |-> 0,
     before |-> 0, computed |-> FALSE, request |-> NoRequest,
     result |-> PhotonChargeResult(TRUE, 0, None, 0, 0)]

\* PhotonService.__init__ for a configuration, with the audit of the calls:
\* n_charges calls made, sum_raw the raw costs of the computations made,
\* sum_billed the photons they returned, backend_calls the requests sent,
\* last the last call.
NewPhotonService(min_charge, dev_access_key) ==
    [accumulated_cost |-> 0, min_charge |-> min_charge,
     dev_access_key |-> dev_access_key,
     n_charges |-> 0, sum_raw |-> 0, sum_billed |-> 0, backend_calls |-> 0,
     last |-> NoCharge]

\* The service after charge_photon(...) returned r, audit included: the
\* last call is kept with its arguments, the raw cost it computed (raw),
\* the carried value it found (before) and, when a request was sent, what
\* the backend did with it (outcome).
AfterCharge(p, r, input_tokens, output_tokens, tool_calls, context_key, outcome) ==
    [p EXCEPT !.accumulated_cost = r.accumulated_cost,
              !.n_charges = @ + 1,
              !.sum_raw = IF r.computed
                          THEN @ + RawCost(input_tokens, output_tokens, tool_calls)
                          ELSE @,
              !.sum_billed = IF r.computed
                             THEN @ + r.request.event_value ELSE @,
              !.backend_calls = IF r.request.sent THEN @ + 1 ELSE @,
              !.last = [made |-> TRUE, input_tokens |-> input_tokens,
                        output_tokens |-> output_tokens,
                        tool_calls |-> tool_calls,
                        context_key |-> context_key,
                        outcome |-> IF r.request.sent THEN outcome ELSE None,
                        raw |-> IF r.computed
                                THEN RawCost(input_tokens, output_tokens, tool_calls)
                                ELSE 0,
                        before |-> p.accumulated_cost,
                        computed |-> r.computed,
                        request |-> r.request,
                        result |-> r.result]]

InitBilling ==
    /\ \E mc \in MinChargeValues, dk \in DevAccessKeyValues :
           photon = NewPhotonService(mc, dk)
    /\ sm = None /\ sm_call = None
    /\ conn = None /\ pm = None
    /\ meter = None /\ tracker = None

ChargePhoton ==
    \E u \in UsageValues, ck \in ContextKeyValues, outcome \in BackendOutcomes :
        /\ photon.n_charges < MaxCharges
        /\ photon' = AfterCharge(photon,
                                 charge_photon(photon, u[1], u[2], u[3], None, ck, outcome),
                                 u[1], u[2], u[3], ck, outcome)
        /\ UNCHANGED <<smVars, connVars, meterVars, trackVars>>

NextBilling == ChargePhoton

SpecBilling == InitBilling /\ [][NextBilling]_vars

\* C3: after every charge computation, whatever the sequence of calls and
\* the usage, the carried value lies in [0, unit-to-currency rate).
C3_CarriedInRange ==
    /\ 0 <= photon.accumulated_cost
    /\ photon.accumulated_cost < PhotonToRmbRate

\* C3 witness: a computation that billed photons and left a fraction behind,
\* on top of a fraction carried in from the call before
C3_Witness ==
    /\ photon.last.made
    /\ photon.last.computed
    /\ photon.last.before > 0
    /\ photon.last.result.photon_amount > 0
    /\ photon.accumulated_cost > 0

\* C4 (as claimed): carry-over is lossless, the billed units times the unit
\* rate plus the carried value equal the sum of the raw costs computed.
C4_Lossless ==
    photon.sum_billed * PhotonToRmbRate + photon.accumulated_cost = photon.sum_raw

(***************************************************************************)
(* websocket-server-refactored.py: ConnectionContext and SessionManager    *)
(*                                                                         *)
(* One connection.  A session id (uuid4) is a fresh number 1, 2, ...       *)
(* context.sessions is an insertion-ordered dict: a sequence of ids.       *)
(* state_manager.sessions is a function from the ids present to machines.  *)
(***************************************************************************)

\* while ... and retry_count < 50
MaxRetries == 50

\* Positional arguments process_message passes to process_user_message
\* (session id, user id, message, runner, context) ...
ProcessUserMessageArgsPassed == 5

\* ... and positional parameters MessageService.process_user_message takes
\* besides self (session_id, user_id, content, runner); none has a default.
ProcessUserMessageParams == 4

\* Python raises TypeError at the call when the counts differ.
CallRaisesTypeError(args_passed, params) == args_passed # params

\* Bound on the session ids a connection creates
MaxSessions == 2

SessionIds == 1..MaxSessions

SeqToSet(s) == { s[i] : i \in 1..Len(s) }
RemoveFromSeq(s, x) == SelectSeq(s, LAMBDA y : y # x)

\* ConnectionContext.__init__ followed by SessionManager.connect_client up
\* to "self.active_connections[websocket] = context"
NewConnection(charging_enabled) ==
    [active |-> TRUE,
     ws |-> "open",                 \* "open", "dropped" by the peer, "closed" by the server
     charging_enabled |-> charging_enabled,
     sessions |-> << >>,
     runners |-> {},
     session_services |-> {},
     current_session_id |-> 0,      \* 0 is None
     machines |-> [x \in {} |-> NewStateMachine(INITIALIZING)],
     init |-> [x \in SessionIds |-> "none"],   \* the _init_session_runner task of each id
     next_id |-> 0,
     outbox |-> << >>,              \* messages sent while handling the last request
     ep |-> "recv"]                 \* websocket_endpoint: "recv", "message", "exited"

\* SessionStateManager.get_session(id).transition_to(target, reason) when
\* the manager has a machine for id ("if state_machine:")
TransitionSession(machines, id, target, reason) ==
    IF id \in DOMAIN machines
    THEN [machines EXCEPT ![id] = transition_to(@, target, reason)[2]]
    ELSE machines

\* Mutant: the runner is registered by create_session itself.
create_session_eager(c) ==
    LET id == c.next_id + 1
    IN << [c EXCEPT !.next_id = id,
                    !.sessions = Append(@, id),
                    !.runners = @ \cup {id},
                    !.machines = [x \in (DOMAIN @) \cup {id} |->
                                     IF x = id THEN NewStateMachine(INITIALIZING)
                                     ELSE @[x]],
                    !.init = [@ EXCEPT ![id] = "pending"]],
          id >>

\* SessionManager.create_session: <<context after, new session id>>.  The
\* runner initialisation is only scheduled (asyncio.create_task).
create_session(c) ==
    LET id == c.next_id + 1
    IN << [c EXCEPT !.next_id = id,
                    !.sessions = Append(@, id),
                    !.machines = [x \in (DOMAIN @) \cup {id} |->
                                     IF x = id THEN NewStateMachine(INITIALIZING)
                                     ELSE @[x]],
                    !.init = [@ EXCEPT ![id] = "pending"]],
          id >>

\* SessionManager._init_session_runner, the try block running to its end
init_session_runner_ok(c, id) ==
    [c EXCEPT !.session_services = @ \cup {id},
              !.runners = @ \cup {id},
              !.machines = TransitionSession(@, id, READY, "Runner initialized"),
              !.init = [@ EXCEPT ![id] = "done"]]

\* Mutant: the failed session is left in context.sessions.
init_session_runner_failed_noRollback(c, id) ==
    [c EXCEPT !.session_services = @ \ {id},
              !.runners = @ \ {id},
              !.machines = TransitionSession(@, id, ERROR,
                                             "Runner initialization failed: e"),
              !.init = [@ EXCEPT ![id] = "failed"]]

\* SessionManager._init_session_runner, the try block raising (in
\* session_service.create_session or Runner(...), before anything was
\* stored) and the except block
init_session_runner_failed(c, id) ==
    [c EXCEPT !.sessions = RemoveFromSeq(@, id),
              !.session_services = @ \ {id},
              !.runners = @ \ {id},
              !.machines = TransitionSession(@, id, ERROR,
                                             "Runner initialization failed: e"),
              !.init = [@ EXCEPT ![id] = "failed"]]

\* SessionManager.delete_session: <<return value, context after>>
delete_session(c, id) ==
    IF id \in SeqToSet(c.sessions)
    THEN << TRUE, [c EXCEPT !.sessions = RemoveFromSeq(@, id),
                            !.runners = @ \ {id},
                            !.session_services = @ \ {id},
                            !.machines = [x \in (DOMAIN @) \ {id} |-> @[x]]] >>
    ELSE << FALSE, c >>

\* Mutant: the switch does not look the session up.
switch_session_unchecked(c, id) ==
    << TRUE, [c EXCEPT !.current_session_id = id] >>

\* SessionManager.switch_session: <<return value, context after>>
switch_session(c, id) ==
    IF id \in SeqToSet(c.sessions)
    THEN << TRUE, [c EXCEPT !.current_session_id = id] >>
    ELSE << FALSE, c >>

\* SessionManager.disconnect_client
disconnect_client(c) == [c EXCEPT !.active = FALSE]

\* websocket.send_json on an open transport
send_json(c, msg) == [c EXCEPT !.outbox = Append(@, msg)]

\* websocket_endpoint's "except WebSocketDisconnect / except Exception":
\* disconnect_client, and the receive loop is left
endpoint_except(c) == [disconnect_client(c) EXCEPT !.ep = "exited"]

\* The frame of process_message, not running, with a record of the call
\* that ended last: how it ended (outcome), the session it was about and
\* that session's state when the loop ended (session_id, start_state),
\* whether the loop slept (polled), whether the runner was there when the
\* loop ended (runner_ready), whether line 334 was reached (turn_started)
\* and the session's state when process_user_message was called with the
\* runner at line 337 (call_state).
PMIdle ==
    [pc |-> "idle", retry_count |-> 0, outcome |-> None,
     session_id |-> 0, start_state |-> None, call_state |-> None,
     runner_raised |-> FALSE,
     polled |-> FALSE, turn_started |-> FALSE, runner_ready |-> FALSE]

\* Mutant: the loop waits for the runner without counting.
PollAgain_unbounded(c, retry_count) ==
    c.current_session_id \notin c.runners

\* The condition of process_message's polling loop
PollAgain(c, retry_count) ==
    c.current_session_id \notin c.runners /\ retry_count < MaxRetries

\* What MessageService.process_user_message returns when it is entered: a
\* success with no charge result (None), with a charge that succeeded or
\* failed, or success = False (an exception of the runner caught inside it)
TurnResults == {"ok_no_charge", "ok_charged", "ok_charge_failed", "failed"}

\* process_message's "except Exception as e": send the error message, then
\* transition the current session's machine to ERROR with the error text.
\* The send is not guarded: on a transport that is not open it raises and
\* the exception leaves process_message.
process_message_except(c, text) ==
    IF c.ws = "open"
    THEN << [send_json(c, "error:exception") EXCEPT
                !.machines = TransitionSession(@, c.current_session_id, ERROR, text)],
            "turn_exception" >>
    ELSE << c, "raised" >>

\* process_message, lines 345-403: what is done with the result of
\* process_user_message.  c is the context after the transition to PROCESSING.
process_message_result(c, result) ==
    LET cur == c.current_session_id
    IN IF result = "failed"
       THEN IF c.ws # "open"
            THEN process_message_except(c, "Exception occurred: send failed")
            ELSE << [send_json(send_json(c, "error:turn_failed"), "complete") EXCEPT
                        !.machines = TransitionSession(@, cur, ERROR,
                                         "Message processing failed: error")],
                    "turn_failed" >>
       ELSE IF c.charging_enabled /\ result = "ok_no_charge"
       \* response_message["charge_result"] is None: None['success'] raises
       THEN process_message_except(c, "Exception occurred: NoneType is not subscriptable")
       ELSE IF c.ws # "open"
       THEN process_message_except(c, "Exception occurred: send failed")
       ELSE IF c.charging_enabled /\ result = "ok_charge_failed"
       THEN << [send_json(c, "charge_failed") EXCEPT !.ws = "closed", !.active = FALSE],
               "charge_failed_closed" >>
       ELSE << [send_json(send_json(c, "assistant"), "complete") EXCEPT
                   !.machines = TransitionSession(@, cur, READY,
                                                  "Message processing completed")],
               "turn_ok" >>

\* process_message from the end of the polling loop to its return:
\* <<context after, outcome>>.  Outcome "raised" is an exception leaving
\* process_message.  No await in this part lets another request in, and the
\* initialisation task of the current session has ended when a runner exists.
process_message_body(c, result) ==
    LET cur == c.current_session_id
    IN IF cur \notin c.runners
       THEN IF c.ws = "open"
            THEN << send_json(c, "error:not_ready"), "not_ready" >>
            ELSE << c, "raised" >>
       ELSE IF cur \notin SeqToSet(c.sessions)
       THEN << c, "raised" >>          \* context.sessions[...] raises KeyError
       ELSE LET c1 == [c EXCEPT !.machines =
                          TransitionSession(@, cur, PROCESSING, "Processing user message")]
            IN IF CallRaisesTypeError(ProcessUserMessageArgsPassed,
                                      ProcessUserMessageParams)
               THEN process_message_except(c1,
                        "Exception occurred: takes 5 positional arguments but 6 were given")
               ELSE process_message_result(c1, result)

(***************************************************************************)
(* SpecConn: one connection of websocket_endpoint                          *)
(***************************************************************************)

\* connect_client has run: the default session exists and is current, its
\* runner initialisation is scheduled.  CHARGING_ENABLED comes from the
\* environment.
InitConn ==
    /\ \E ce \in BOOLEAN :
          LET r == create_session(NewConnection(ce))
          IN conn = [r[1] EXCEPT !.current_session_id = r[2],
                                 !.outbox = <<"sessions_list", "session_messages">>]
    /\ pm = PMIdle
    /\ sm = None /\ sm_call = None /\ photon = None
    /\ meter = None /\ tracker = None

\* The background task _init_session_runner(context, id) completes
InitRunnerSucceeds ==
    \E id \in SessionIds :
        /\ conn.init[id] = "pending"
        /\ conn' = init_session_runner_ok(conn, id)
        /\ UNCHANGED <<pm, smVars, billVars, meterVars, trackVars>>

\* The background task _init_session_runner(context, id) fails
InitRunnerFails ==
    \E id \in SessionIds :
        /\ conn.init[id] = "pending"
        /\ conn' = init_session_runner_failed(conn, id)
        /\ UNCHANGED <<pm, smVars, billVars, meterVars, trackVars>>

\* The peer goes away: later sends and receives on the transport raise
ClientDrop ==
    /\ conn.ws = "open"
    /\ conn' = [conn EXCEPT !.ws = "dropped"]
    /\ UNCHANGED <<pm, smVars, billVars, meterVars, trackVars>>

\* receive_json raises (WebSocketDisconnect or RuntimeError)
EndpointReceiveFails ==
    /\ conn.ep = "recv"
    /\ conn.ws # "open"
    /\ conn' = endpoint_except(conn)
    /\ UNCHANGED <<pm, smVars, billVars, meterVars, trackVars>>

\* {"type": "message"}: process_message starts; with a current session it
\* enters the polling loop.
RecvMessage ==
    /\ conn.ep = "recv"
    /\ conn.ws = "open"
    /\ IF conn.current_session_id = 0
       THEN /\ conn' = send_json([conn EXCEPT !.outbox = << >>], "error:no_session")
            /\ pm' = [PMIdle EXCEPT !.outcome = "no_session"]
       ELSE /\ conn' = [conn EXCEPT !.ep = "message", !.outbox = << >>]
            /\ pm' = [PMIdle EXCEPT !.pc = "poll"]
    /\ UNCHANGED <<smVars, billVars, meterVars, trackVars>>

\* One iteration of the polling loop: asyncio.sleep(0.1); retry_count += 1
PMSleep ==
    /\ pm.pc = "poll"
    /\ PollAgain(conn, pm.retry_count)
    /\ pm' = [pm EXCEPT !.retry_count = @ + 1, !.polled = TRUE]
    /\ UNCHANGED <<conn, smVars, billVars, meterVars, trackVars>>

\* The loop condition is false: the rest of process_message, and the
\* endpoint's handling of its return or of the exception it raised
PMAfterPoll ==
    /\ pm.pc = "poll"
    /\ ~PollAgain(conn, pm.retry_count)
    /\ \E result \in TurnResults :
          LET cur == conn.current_session_id
              r == process_message_body(conn, result)
          IN /\ conn' = IF r[2] = "raised" THEN endpoint_except(r[1])
                        ELSE [r[1] EXCEPT !.ep = "recv"]
             /\ pm' = [pm EXCEPT
                         !.pc = "idle",
                         !.outcome = r[2],
                         !.session_id = cur,
                         !.start_state = IF cur \in DOMAIN conn.machines
                                         THEN conn.machines[cur].current_state
                                         ELSE None,
                         !.call_state = IF /\ cur \in conn.runners
                                           /\ cur \in SeqToSet(conn.sessions)
                                           /\ cur \in DOMAIN conn.machines
                                        THEN TransitionSession(conn.machines, cur,
                                                 PROCESSING, "Processing user message")[cur].current_state
                                        ELSE None,
                         !.runner_raised = (r[2] = "turn_failed"),
                         !.runner_ready = (cur \in conn.runners),
                         !.turn_started = (cur \in conn.runners /\
                                           cur \in SeqToSet(conn.sessions))]
    /\ UNCHANGED <<smVars, billVars, meterVars, trackVars>>

\* {"type": "create_session"}
RecvCreateSession ==
    /\ conn.ep = "recv"
    /\ conn.ws = "open"
    /\ conn.next_id < MaxSessions
    /\ LET r == create_session([conn EXCEPT !.outbox = << >>])
           s == switch_session(r[1], r[2])
       IN conn' = send_json(send_json(s[2], "sessions_list"), "session_messages")
    /\ pm' = PMIdle
    /\ UNCHANGED <<smVars, billVars, meterVars, trackVars>>

\* {"type": "switch_session", "session_id": id}
RecvSwitchSession ==
    \E id \in SessionIds :
        /\ conn.ep = "recv"
        /\ conn.ws = "open"
        /\ id <= conn.next_id
        /\ LET s == switch_session([conn EXCEPT !.outbox = << >>], id)
           IN conn' = IF s[1] THEN send_json(s[2], "session_messages")
                      ELSE send_json(s[2], "error:no_such_session")
        /\ pm' = PMIdle
        /\ UNCHANGED <<smVars, billVars, meterVars, trackVars>>

\* {"type": "delete_session", "session_id": id}
RecvDeleteSession ==
    \E id \in SessionIds :
        /\ conn.ep = "recv"
        /\ conn.ws = "open"
        /\ id <= conn.next_id
        /\ LET d == delete_session([conn EXCEPT !.outbox = << >>], id)
           IN IF ~d[1]
              THEN conn' = send_json(d[2], "error:delete_failed")
              ELSE IF id # conn.current_session_id
              THEN conn' = send_json(d[2], "sessions_list")
              ELSE IF d[2].sessions # << >>
              THEN conn' = send_json(switch_session(d[2], d[2].sessions[1])[2],
                                     "sessions_list")
              ELSE /\ d[2].next_id < MaxSessions
                   /\ LET r == create_session(d[2])
                      IN conn' = send_json(switch_session(r[1], r[2])[2],
                                           "sessions_list")
        /\ pm' = PMIdle
        /\ UNCHANGED <<smVars, billVars, meterVars, trackVars>>

\* {"type": "get_sessions"}
RecvGetSessions ==
    /\ conn.ep = "recv"
    /\ conn.ws = "open"
    /\ conn' = send_json([conn EXCEPT !.outbox = << >>], "sessions_list")
    /\ pm' = PMIdle
    /\ UNCHANGED <<smVars, billVars, meterVars, trackVars>>

NextConn ==
    \/ InitRunnerSucceeds
    \/ InitRunnerFails
    \/ ClientDrop
    \/ EndpointReceiveFails
    \/ RecvMessage
    \/ PMSleep
    \/ PMAfterPoll
    \/ RecvCreateSession
    \/ RecvSwitchSession
    \/ RecvDeleteSession
    \/ RecvGetSessions

SpecConn == InitConn /\ [][NextConn]_vars

\* The scheduler resumes process_message: asyncio.sleep(0.1) returns, and the
\* statements after the loop run.
SpecConnFair == SpecConn /\ WF_vars(PMSleep) /\ WF_vars(PMAfterPoll)

(***************************************************************************)
(* Properties of one connection                                            *)
(***************************************************************************)

\* C6: when the runner initialisation of a session has failed, the
\* session's state machine is in state ERROR.
C6_InitFailureEndsInError ==
    \A id \in SessionIds :
        (conn.init[id] = "failed" /\ id \in DOMAIN conn.machines)
            => conn.machines[id].current_state = ERROR

\* C7: the step in which a session's runner initialisation fails leaves the
\* session out of the session map, leaves no runner and no session service
\* for it, and leaves the connection as open and as registered as it was;
\* the session never comes back afterwards.
C7_FailedInitRolledBack ==
    /\ [](\A id \in SessionIds :
              conn.init[id] = "failed" =>
                  /\ id \notin SeqToSet(conn.sessions)
                  /\ id \notin conn.runners
                  /\ id \notin conn.session_services)
    /\ [][\A id \in SessionIds :
              (conn.init[id] = "pending" /\ conn'.init[id] = "failed") =>
                  /\ id \notin SeqToSet(conn'.sessions)
                  /\ id \notin conn'.runners
                  /\ id \notin conn'.session_services
                  /\ conn'.active = conn.active
                  /\ conn'.ws = conn.ws
                  /\ conn'.ep = conn.ep]_vars

\* An initialisation has failed on a connection that is open and registered
\* and still serves requests, with another session alive beside it.
C7_Witness ==
    /\ \E id \in SessionIds : conn.init[id] = "failed"
    /\ conn.active /\ conn.ws = "open" /\ conn.ep = "recv"
    /\ conn.sessions # << >>

\* What C8 says of every state: the loop never counts beyond MaxRetries;
\* a turn is started exactly when the runner was there at the end of the
\* loop; without it no turn is started, the whole budget was used and, the
\* transport being open, the "not ready" error is the one message sent.
C8_PollBounded ==
    /\ pm.retry_count <= MaxRetries
    /\ (pm.pc = "idle" /\ pm.outcome \notin {None, "no_session"}) =>
          /\ pm.runner_ready => (pm.turn_started /\ pm.outcome # "not_ready")
          /\ ~pm.runner_ready =>
                /\ ~pm.turn_started
                /\ pm.retry_count = MaxRetries
                /\ pm.outcome \in {"not_ready", "raised"}
                /\ pm.outcome = "not_ready" => conn.outbox = <<"error:not_ready">>

\* C8: process_message on a session whose runner is not ready never hangs:
\* it polls at most MaxRetries (50) times, goes on with the turn when the
\* runner is there at the end of the loop, otherwise sends the "not ready"
\* error and returns without starting a turn; and the loop is always left.
C8_NeverHangs ==
    /\ []C8_PollBounded
    /\ [][(pm.pc = "poll" /\ pm'.pc = "idle" /\ ~pm'.turn_started) =>
              conn'.machines = conn.machines]_vars
    /\ (pm.pc = "poll") ~> (pm.pc = "idle")

\* Both ways out of the loop after polling: the budget ran out and the
\* "not ready" error was sent ...
C8_Witness ==
    /\ pm.pc = "idle" /\ pm.outcome = "not_ready"
    /\ pm.retry_count = MaxRetries

\* ... or the runner arrived while process_message was polling and the
\* turn was started.
C8_WitnessProceeds ==
    /\ pm.pc = "idle" /\ pm.polled /\ pm.turn_started
    /\ pm.retry_count < MaxRetries

\* C9: a turn started on a session in READY ends with the session's machine
\* in READY when it completed without exception and no charge failed, and
\* in ERROR, the last transition's reason carrying the error text, when an
\* exception was raised during the turn.
C9_TurnEndState ==
    (/\ pm.pc = "idle" /\ pm.turn_started /\ pm.start_state = READY
     /\ pm.session_id \in DOMAIN conn.machines) =>
        LET m == conn.machines[pm.session_id]
        IN /\ pm.outcome = "turn_ok" => m.current_state = READY
           /\ pm.outcome \in {"turn_exception", "turn_failed", "raised"} =>
                 /\ m.current_state = ERROR
                 /\ m.state_history # << >>
                 /\ m.state_history[Len(m.state_history)].reason
                        \in {"Exception occurred: takes 5 positional arguments but 6 were given",
                             "Exception occurred: NoneType is not subscriptable",
                             "Exception occurred: send failed",
                             "Message processing failed: error"}

\* C10: no exception leaves process_message.
C10_NeverRaises == pm.outcome # "raised"

\* C36: with metering enabled, a turn started on a READY session whose
\* transport stays open and for which nothing is charged ends normally: the
\* assistant message and the complete marker are sent, the session is back
\* in READY and the connection stays open and registered.
C36_UnchargedTurnCompletes ==
    (/\ pm.pc = "idle" /\ pm.turn_started /\ pm.start_state = READY
     /\ conn.charging_enabled /\ conn.ws = "open"
     /\ pm.outcome # "charge_failed_closed"
     /\ pm.session_id \in DOMAIN conn.machines)
        => /\ conn.outbox = <<"assistant", "complete">>
           /\ conn.machines[pm.session_id].current_state = READY
           /\ conn.active

\* C39: once process_message is past its readiness check (the current
\* session has a runner), the current session id is in the session map: the
\* lookup context.sessions[current_session_id] never fails, whatever the
\* requests handled before and however the runner initialisations ended.
C39_LookupNeverFails ==
    /\ (conn.current_session_id \in conn.runners
            => conn.current_session_id \in SeqToSet(conn.sessions))
    /\ (pm.pc = "idle" /\ pm.runner_ready) => pm.turn_started

\* A turn was started on a connection where a deleted session had its
\* runner stored afterwards and another session's initialisation failed
C39_Witness ==
    /\ pm.pc = "idle" /\ pm.runner_ready /\ pm.turn_started
    /\ ~(conn.runners \subseteq SeqToSet(conn.sessions))

\* A turn was started after a failed initialisation took a session out of
\* the map
C39_WitnessAfterFailure ==
    /\ pm.pc = "idle" /\ pm.runner_ready /\ pm.turn_started
    /\ \E id \in SessionIds : conn.init[id] = "failed"

\* C34: when process_message has ended, whatever the outcome of the turn,
\* the machine of the session it worked on is not left in PROCESSING or
\* WAITING_FOR_TOOL.
C34_NotLeftProcessing ==
    (pm.pc = "idle" /\ pm.outcome # None /\ pm.session_id \in DOMAIN conn.machines)
        => conn.machines[pm.session_id].current_state
               \notin {PROCESSING, WAITING_FOR_TOOL}

\* C32: whenever process_message hands the runner of a session to
\* process_user_message, to have its event stream consumed, the session's
\* machine is in PROCESSING: the transition to PROCESSING succeeded first,
\* also in a turn that follows a failed turn.
C32_ProcessingWhileDriven ==
    (pm.pc = "idle" /\ pm.turn_started) => pm.call_state = PROCESSING

\* C33: every session id that has a runner or a session service in the
\* connection context is in the session map, however create_session, the
\* runner initialisation and delete_session interleave.
C33_NoRunnerWithoutSession ==
    (conn.runners \cup conn.session_services) \subseteq SeqToSet(conn.sessions)

(***************************************************************************)
(* services/message_service.py: the charging of a turn                     *)
(*                                                                         *)
(* photon_service.photon_service is one module-level object: every         *)
(* MessageService of the process reaches it through get_photon_service().  *)
(***************************************************************************)

\* Values of the CHARGING_ENABLED environment variable
ChargingEnvValues == {"unset", "false", "TRUE", "1"}

\* str.lower() on those values
Lower(s) == IF s = "TRUE" THEN "true" ELSE s

\* Mutant: the switch is always on.
CHARGING_ENABLED_always(env) == TRUE

\* config.photon_config.CHARGING_ENABLED:
\* os.getenv("CHARGING_ENABLED", "false").lower() == "true"
CHARGING_ENABLED(env) ==
    Lower(IF env = "unset" THEN "false" ELSE env) = "true"

\* The module-level photon_service before init_photon_service: None
NoService ==
    [initialised |-> FALSE, accumulated_cost |-> 0, min_charge |-> 0,
     dev_access_key |-> None]

\* init_photon_service(PHOTON_CONFIG): the one PhotonService of the process
init_photon_service(min_charge, dev_access_key) ==
    [initialised |-> TRUE, accumulated_cost |-> 0, min_charge |-> min_charge,
     dev_access_key |-> dev_access_key]

\* The servers' module initialisation: "if CHARGING_ENABLED:
\* init_photon_service(PHOTON_CONFIG)"
module_init(env, min_charge, dev_access_key) ==
    IF CHARGING_ENABLED(env)
    THEN init_photon_service(min_charge, dev_access_key)
    ELSE NoService

\* hasattr(context, 'app_access_key') and context.app_access_key, for the
\* EventContext that _process_photon_charging passes as context: the
\* dataclass has the fields session_id, user_id, message_id, timestamp and
\* metadata only, whatever credential the connection holds.
EventContext_app_access_key(connection_key) == None

\* The record of "charge_result is None"
NoChargeResult ==
    [charged |-> FALSE, request |-> NoRequest,
     result |-> PhotonChargeResult(TRUE, 0, None, 0, 0)]

\* MessageService._process_photon_charging: <<service after, charge result>>
\* for the usage of a turn; tool_call_count is len(tool_calls) plus the
\* ToolMessages stored since the last user message.
process_photon_charging(service, connection_key, input_tokens, output_tokens, tool_call_count, outcome) ==
    IF ~service.initialised
    THEN << service, NoChargeResult >>
    ELSE IF input_tokens > 0 \/ output_tokens > 0 \/ tool_call_count > 0
    THEN LET r == charge_photon(service, input_tokens, output_tokens, tool_call_count,
                                None, EventContext_app_access_key(connection_key),
                                outcome)
         IN << [service EXCEPT !.accumulated_cost = r.accumulated_cost],
               [charged |-> TRUE, request |-> r.request, result |-> r.result] >>
    ELSE << service, NoChargeResult >>

\* MessageService.process_user_message, lines 98-105: charge_result = None;
\* if CHARGING_ENABLED: charge_result = await self._process_photon_charging(..)
charge_turn(env, service, connection_key, input_tokens, output_tokens, tool_call_count, outcome) ==
    IF CHARGING_ENABLED(env)
    THEN process_photon_charging(service, connection_key, input_tokens,
                                 output_tokens, tool_call_count, outcome)
    ELSE << service, NoChargeResult >>

(***************************************************************************)
(* SpecMetering: two connections of one server process, their turns        *)
(* charged by their MessageService through the process-wide service        *)
(***************************************************************************)

Connections == {"A", "B"}

\* Bound on the turns charged, all connections together
MaxMeterTurns == 3

\* Usage of a turn: 1500 input tokens cost 0.9 photon and 2000 cost 1.2, so
\* that a fraction carried from one turn changes what the next turn bills
MeterInputValues == {0, 1500, 2000}
MeterOutputValues == {0, 50}
MeterToolCountValues == {0, 2}

\* What the backend does with a debit: accepts it, or does not answer
MeterBackendOutcomes == {"code0", "timeout"}

\* The record of "no turn yet" of a connection
NoMeterTurn ==
    [made |-> FALSE, input_tokens |-> 0, output_tokens |-> 0,
     tool_call_count |-> 0, charge |-> NoChargeResult, isolated |-> NoChargeResult]

\* A ConnectionContext as far as charging goes: app_access_key (None until
\* the client authenticates), and for the audit the turns made (n), the last
\* turn with its charge result, and what an accumulator used by this
\* connection alone would hold (own_accumulated) and would have billed
\* (last.isolated).
NewMeterConnection ==
    [app_access_key |-> None, own_accumulated |-> 0, n |-> 0, last |-> NoMeterTurn]

InitMetering ==
    /\ \E env \in ChargingEnvValues, dk \in DevAccessKeyValues :
          meter = [env |-> env,
                   service |-> module_init(env, 1, dk),
                   backend_calls |-> 0,
                   turns |-> 0,
                   conns |-> [c \in Connections |-> NewMeterConnection]]
    /\ sm = None /\ sm_call = None /\ photon = None
    /\ conn = None /\ pm = None /\ tracker = None

\* websocket_endpoint, {"type": "authenticate", "appAccessKey": key} (or the
\* appAccessKey query parameter at connect): context.app_access_key = key
MeterAuthenticate ==
    \E c \in Connections :
        /\ meter.conns[c].app_access_key = None
        /\ meter' = [meter EXCEPT !.conns[c].app_access_key = "user_key"]
        /\ UNCHANGED <<smVars, billVars, connVars, trackVars>>

\* A turn of connection c reaches the charging step of process_user_message
MeterTurn ==
    \E c \in Connections, i \in MeterInputValues, o \in MeterOutputValues,
       t \in MeterToolCountValues, outcome \in MeterBackendOutcomes :
        /\ meter.turns < MaxMeterTurns
        /\ LET k == meter.conns[c].app_access_key
               r == charge_turn(meter.env, meter.service, k, i, o, t, outcome)
               own == [meter.service EXCEPT
                          !.accumulated_cost = meter.conns[c].own_accumulated]
               iso == charge_turn(meter.env, own, k, i, o, t, outcome)
           IN meter' = [meter EXCEPT
                          !.service = r[1],
                          !.backend_calls = IF r[2].request.sent THEN @ + 1 ELSE @,
                          !.turns = @ + 1,
                          !.conns[c] = [@ EXCEPT
                              !.own_accumulated = iso[1].accumulated_cost,
                              !.n = @ + 1,
                              !.last = [made |-> TRUE, input_tokens |-> i,
                                        output_tokens |-> o, tool_call_count |-> t,
                                        charge |-> r[2], isolated |-> iso[2]]]]
        /\ UNCHANGED <<smVars, billVars, connVars, trackVars>>

NextMetering ==
    \/ MeterAuthenticate
    \/ MeterTurn

SpecMetering == InitMetering /\ [][NextMetering]_vars

\* C12 (as claimed): the accumulator is isolated per connection, so what a
\* connection's turn is billed is what an accumulator fed by that
\* connection's charges alone would have billed.
C12_AccumulatorIsolated ==
    \A c \in Connections :
        meter.conns[c].last.made =>
            meter.conns[c].last.charge.result.photon_amount
                = meter.conns[c].last.isolated.result.photon_amount

\* C13 (as claimed): a debit of a turn on an authenticated connection is
\* sent with that connection's credential, and without one with the
\* developer credential.
C13_CredentialPrecedence ==
    \A c \in Connections :
        (meter.conns[c].last.made /\ meter.conns[c].last.charge.request.sent) =>
            meter.conns[c].last.charge.request.access_key
                = get_access_key(None, meter.conns[c].app_access_key,
                                 meter.service.dev_access_key)

\* Metering is disabled: CHARGING_ENABLED is not set, or set to something
\* other than "true" in some letter case
MeteringDisabled == meter.env \notin {"true", "TRUE", "True"}

\* C19: with metering disabled, whatever turns are made, no backend call is
\* made, no charge result is produced and no accumulator is created or
\* changed.
C19_DisabledNoBilling ==
    MeteringDisabled =>
        /\ meter.backend_calls = 0
        /\ meter.service = NoService
        /\ \A c \in Connections :
              /\ ~meter.conns[c].last.charge.charged
              /\ ~meter.conns[c].last.charge.request.sent

\* Metering is disabled and both connections have made turns with usage
C19_Witness ==
    /\ MeteringDisabled
    /\ \A c \in Connections :
          /\ meter.conns[c].last.made
          /\ meter.conns[c].last.input_tokens > 0
    /\ meter.turns = MaxMeterTurns

(***************************************************************************)
(* Properties of charge_photon (SpecBilling)                               *)
(***************************************************************************)

\* The photons calculate_charge_amount returns for the last call's usage on
\* the carried value that call found
LastComputedPhotons ==
    calculate_charge_amount(photon.last.before, photon.min_charge,
                            photon.last.input_tokens, photon.last.output_tokens,
                            photon.last.tool_calls).photons

\* The last call had no credential to resolve: no connection credential, no
\* cookie (no caller passes a request), no developer credential
LastHadNoCredential ==
    /\ photon.last.made
    /\ photon.last.context_key = None
    /\ photon.dev_access_key = None

\* C14 (as claimed): a call whose usage inputs are all <= 0, or whose
\* computed photons are 0, returns success with zero photons and sends
\* nothing, also when no credential can be resolved.
C14_ZeroChargeBeforeCredential ==
    (photon.last.made /\ LastComputedPhotons = 0) =>
        /\ photon.last.result.success
        /\ photon.last.result.photon_amount = 0
        /\ ~photon.last.request.sent

\* C15: a call whose usage computes photons > 0 and for which no credential
\* can be resolved returns a failure and sends no request to the backend.
C15_NoCredentialFails ==
    (LastHadNoCredential /\ LastComputedPhotons > 0) =>
        /\ ~photon.last.result.success
        /\ photon.last.result.code # 0
        /\ ~photon.last.request.sent
        /\ photon.last.result.photon_amount = 0

\* Usage worth more than a photon was charged without any credential, after
\* an earlier call
C15_Witness ==
    /\ LastHadNoCredential
    /\ LastComputedPhotons > 0
    /\ photon.n_charges >= 2
    /\ ~photon.last.result.success

\* The cost of a usage as the specification states it, in micro-yuan:
\* per 1000 tokens 0.006/0.024 up to 32,000 input tokens, 0.01/0.04 up to
\* 128,000, 0.015/0.06 above; tool calls add nothing
StatedCost(input_tokens, output_tokens) ==
    IF input_tokens <= 32000 THEN input_tokens * 6 + output_tokens * 24
    ELSE IF input_tokens <= 128000 THEN input_tokens * 10 + output_tokens * 40
    ELSE input_tokens * 15 + output_tokens * 60

C18_BackendCodeMapping ==
    (photon.last.made /\ photon.last.request.sent) =>
        /\ photon.last.result.success <=> (photon.last.outcome = "code0")
        /\ photon.last.result.success <=> (photon.last.result.code = 0)
        /\ photon.last.result.biz_no # None
        /\ photon.last.result.photon_amount = photon.last.request.event_value
        /\ photon.last.result.photon_amount = LastComputedPhotons
        /\ photon.last.result.rmb_amount = LastComputedPhotons * PhotonToRmbRate

\* A request the backend did not answer in time
C18_Witness ==
    /\ photon.last.made /\ photon.last.request.sent
    /\ photon.last.outcome = "timeout"
    /\ ~photon.last.result.success
    /\ photon.last.result.photon_amount > 0

(***************************************************************************)
(* core/event_handlers.py: ToolEventProcessor                              *)
(*                                                                         *)
(* active_tools and tool_results are dicts keyed by tool id: functions on  *)
(* the set of keys present.  Timestamps are ticks of a clock.              *)
(***************************************************************************)

\* The key under which an event is filed:
\* data.get('tool_id', data.get('name', 'unknown'))
event_tool_id(data) ==
    IF data.tool_id # None THEN data.tool_id
    ELSE IF data.name # None THEN data.name
    ELSE "unknown"

\* data.get('name', 'unknown')
event_tool_name(data) == IF data.name # None THEN data.name ELSE "unknown"

\* dict assignment d[k] = v
DictSet(d, k, v) == [x \in (DOMAIN d) \cup {k} |-> IF x = k THEN v ELSE d[x]]

\* del d[k] for every k in ks
DictRemove(d, ks) == [x \in (DOMAIN d) \ ks |-> d[x]]

\* ToolEventProcessor.__init__
NewToolEventProcessor ==
    [active_tools |-> [x \in {} |-> 0], tool_results |-> [x \in {} |-> 0]]

\* Mutant: a started event for an id already present is filed as one more
\* record.
process_tool_call_started_append(t, now, data) ==
    LET tool_id == event_tool_id(data)
        key == IF tool_id \in DOMAIN t.active_tools THEN "duplicate" ELSE tool_id
    IN [t EXCEPT !.active_tools =
           DictSet(@, key, [name |-> event_tool_name(data), started_at |-> now,
                            completed_at |-> -1, status |-> "executing",
                            error |-> FALSE])]

\* ToolEventProcessor.process_tool_call_started: the record of tool_id is
\* (re)created, status 'executing', no 'completed_at' key (-1)
process_tool_call_started(t, now, data) ==
    [t EXCEPT !.active_tools =
        DictSet(@, event_tool_id(data),
                [name |-> event_tool_name(data), started_at |-> now,
                 completed_at |-> -1, status |-> "executing", error |-> FALSE])]

\* Mutant: a completion for an id without a record files a record.
process_tool_call_completed_create(t, now, data) ==
    [t EXCEPT !.active_tools =
        DictSet(@, event_tool_id(data),
                [name |-> event_tool_name(data), started_at |-> now,
                 completed_at |-> now,
                 status |-> IF data.error THEN "failed" ELSE "completed",
                 error |-> data.error])]

\* ToolEventProcessor.process_tool_call_completed: nothing for an id that is
\* not in active_tools
process_tool_call_completed(t, now, data) ==
    LET tool_id == event_tool_id(data)
    IN IF tool_id \in DOMAIN t.active_tools
       THEN [t EXCEPT
               !.active_tools[tool_id] =
                   [@ EXCEPT !.completed_at = now,
                             !.status = IF data.error THEN "failed" ELSE "completed",
                             !.error = data.error],
               !.tool_results =
                   DictSet(@, tool_id,
                           [name |-> event_tool_name(data), error |-> data.error,
                            duration |-> now - t.active_tools[tool_id].started_at])]
       ELSE t

\* ToolEventProcessor.process_tool_call_failed
process_tool_call_failed(t, now, data) ==
    LET tool_id == event_tool_id(data)
    IN IF tool_id \in DOMAIN t.active_tools
       THEN [t EXCEPT !.active_tools[tool_id] =
                         [@ EXCEPT !.completed_at = now, !.status = "failed",
                                   !.error = TRUE]]
       ELSE t

\* ToolEventProcessor.get_active_tools() without a session filter: a copy of
\* the whole dict, whatever the status of its records
get_active_tools(t) == t.active_tools

\* Mutant: the age of a record is counted from its start, completed or not.
cleanup_completed_tools_byStart(t, now, max_age_seconds) ==
    LET to_remove == { k \in DOMAIN t.active_tools :
                          now - t.active_tools[k].started_at > max_age_seconds }
    IN [t EXCEPT !.active_tools = DictRemove(@, to_remove),
                 !.tool_results = DictRemove(@, to_remove \cap DOMAIN @)]

\* ToolEventProcessor.cleanup_completed_tools(max_age_seconds)
cleanup_completed_tools(t, now, max_age_seconds) ==
    LET to_remove == { k \in DOMAIN t.active_tools :
                          /\ t.active_tools[k].completed_at # -1
                          /\ now - t.active_tools[k].completed_at > max_age_seconds }
    IN [t EXCEPT !.active_tools = DictRemove(@, to_remove),
                 !.tool_results = DictRemove(@, to_remove \cap DOMAIN @)]

(***************************************************************************)
(* SpecTools: one ToolEventProcessor, any sequence of events               *)
(***************************************************************************)

\* Bound on the events processed (each takes one tick of the clock)
MaxToolEvents == 4

\* Event data: with a tool id and a name, with a name only, and with
\* neither (the 'user_message' event process_user_message sends as
\* TOOL_CALL_STARTED)
ToolEventData ==
    { [tool_id |-> i, name |-> n, error |-> e] :
          i \in {None, "call_1", "call_2"}, n \in {None, "search"}, e \in BOOLEAN }

\* The record of "no event yet"
NoToolEvent ==
    [op |-> None, tool_id |-> None, max_age_seconds |-> None, at |-> 0,
     before |-> NewToolEventProcessor]

InitTools ==
    /\ tracker = [tools |-> NewToolEventProcessor, now |-> 0, last |-> NoToolEvent]
    /\ sm = None /\ sm_call = None /\ photon = None
    /\ conn = None /\ pm = None /\ meter = None

\* The tracker after an event: the clock has ticked, the event is recorded
\* with its time and the processor as it was before
AfterToolEvent(op, tool_id, max_age_seconds, t) ==
    [tools |-> t, now |-> tracker.now + 1,
     last |-> [op |-> op, tool_id |-> tool_id,
               max_age_seconds |-> max_age_seconds, at |-> tracker.now,
               before |-> tracker.tools]]

ToolCallStarted ==
    \E data \in ToolEventData :
        /\ tracker.now < MaxToolEvents
        /\ ~data.error
        /\ tracker' = AfterToolEvent("started", event_tool_id(data), None,
                          process_tool_call_started(tracker.tools, tracker.now, data))
        /\ UNCHANGED <<smVars, billVars, connVars, meterVars>>

ToolCallCompleted ==
    \E data \in ToolEventData :
        /\ tracker.now < MaxToolEvents
        /\ tracker' = AfterToolEvent("completed", event_tool_id(data), None,
                          process_tool_call_completed(tracker.tools, tracker.now, data))
        /\ UNCHANGED <<smVars, billVars, connVars, meterVars>>

ToolCallFailed ==
    \E data \in ToolEventData :
        /\ tracker.now < MaxToolEvents
        /\ tracker' = AfterToolEvent("failed", event_tool_id(data), None,
                          process_tool_call_failed(tracker.tools, tracker.now, data))
        /\ UNCHANGED <<smVars, billVars, connVars, meterVars>>

CleanupCompletedTools ==
    \E max_age_seconds \in {0, 2} :
        /\ tracker.now < MaxToolEvents
        /\ tracker' = AfterToolEvent("cleanup", None, max_age_seconds,
                          cleanup_completed_tools(tracker.tools, tracker.now,
                                                  max_age_seconds))
        /\ UNCHANGED <<smVars, billVars, connVars, meterVars>>

NextTools ==
    \/ ToolCallStarted
    \/ ToolCallCompleted
    \/ ToolCallFailed
    \/ CleanupCompletedTools

SpecTools == InitTools /\ [][NextTools]_vars

\* C20: a tool-call-started event for an id that has a record which is not
\* completed creates no second record: the ids on record are the same as
\* before, so a single active tool stays a single one.
C20_NoSecondRecord ==
    (/\ tracker.last.op = "started"
     /\ tracker.last.tool_id \in DOMAIN tracker.last.before.active_tools
     /\ tracker.last.before.active_tools[tracker.last.tool_id].completed_at = -1) =>
        /\ DOMAIN get_active_tools(tracker.tools)
              = DOMAIN get_active_tools(tracker.last.before)
        /\ Cardinality(DOMAIN get_active_tools(tracker.tools))
              = Cardinality(DOMAIN get_active_tools(tracker.last.before))
        /\ tracker.tools.active_tools[tracker.last.tool_id].status = "executing"

\* A second started event for "call_1", the only tool on record and still
\* executing: one record afterwards
C20_Witness ==
    /\ tracker.last.op = "started"
    /\ tracker.last.tool_id = "call_1"
    /\ DOMAIN tracker.last.before.active_tools = {"call_1"}
    /\ tracker.last.before.active_tools["call_1"].completed_at = -1
    /\ Cardinality(DOMAIN get_active_tools(tracker.tools)) = 1

(***************************************************************************)
(* Properties of the state history (SpecSM)                                *)
(***************************************************************************)

\* C25: a transition_to that returns true appends exactly one history entry
\* (the entries before it are kept) and one that returns false appends
\* none; so INITIALIZING -> READY on a fresh machine leaves exactly one
\* entry, and PROCESSING -> WAITING_FOR_TOOL followed by
\* WAITING_FOR_TOOL -> PROCESSING is back in PROCESSING with exactly two
\* entries more.
C25_OneEntryPerTransition ==
    /\ [](sm_call.op = "transition_to" =>
            IF sm_call.ret
            THEN /\ Len(sm.state_history) = Len(sm_call.before.state_history) + 1
                 /\ SubSeq(sm.state_history, 1, Len(sm_call.before.state_history))
                        = sm_call.before.state_history
            ELSE sm.state_history = sm_call.before.state_history)
    /\ []((/\ sm_call.op = "transition_to"
           /\ sm_call.before = NewStateMachine(INITIALIZING)
           /\ sm_call.arg = READY) =>
              /\ sm.current_state = READY
              /\ Len(sm.state_history) = 1)
    /\ [][(/\ sm_call.op = "transition_to"
           /\ sm_call.before.current_state = PROCESSING
           /\ sm_call.arg = WAITING_FOR_TOOL
           /\ sm_call'.op = "transition_to"
           /\ sm_call'.arg = PROCESSING) =>
              /\ sm'.current_state = PROCESSING
              /\ Len(sm'.state_history)
                    = Len(sm_call.before.state_history) + 2]_vars

\* C25 witness: PROCESSING -> WAITING_FOR_TOOL -> PROCESSING has just been
\* made, the history holds the two entries of the round trip
C25_Witness ==
    /\ sm_call.op = "transition_to"
    /\ sm_call.ret
    /\ sm_call.arg = PROCESSING
    /\ sm_call.before.current_state = WAITING_FOR_TOOL
    /\ Len(sm.state_history) = 4
    /\ sm.state_history[3].state = PROCESSING
    /\ sm.state_history[4].state = WAITING_FOR_TOOL

\* C27: reset_to_state(s) with s INITIALIZING or READY returns true from
\* any current state, the current state is s, the side data is empty and
\* every entry recorded before is still in the history; with another s it
\* returns false and the machine is as it was.
C27_ResetOverrides ==
    sm_call.op = "reset_to_state" =>
        IF sm_call.arg \in {INITIALIZING, READY}
        THEN /\ sm_call.ret
             /\ sm.current_state = sm_call.arg
             /\ sm.state_data = {}
             /\ Len(sm.state_history) >= Len(sm_call.before.state_history)
             /\ SubSeq(sm.state_history, 1, Len(sm_call.before.state_history))
                    = sm_call.before.state_history
        ELSE /\ ~sm_call.ret
             /\ sm = sm_call.before

\* C27 witness: a reset to READY of a machine in ERROR that had side data
\* and a history
C27_Witness ==
    /\ sm_call.op = "reset_to_state"
    /\ sm_call.arg = READY
    /\ sm_call.before.current_state = ERROR
    /\ sm_call.before.state_data # {}
    /\ Len(sm_call.before.state_history) >= 2
    /\ sm.current_state = READY
    /\ sm.state_data = {}

(***************************************************************************)
(* SpecGuard: one state machine to which one transition with a condition   *)
(* and/or an action is added, then any sequence of transition_to calls     *)
(***************************************************************************)

\* What a condition does when called, None for no condition
ConditionValues == {None, "true", "false", "raise"}

\* What an action does when called, None for no action
ActionValues == {None, "ok", "raise"}

NoGuardCall ==
    [op |-> None, arg |-> None, ret |-> FALSE, action_ran |-> FALSE,
     before |-> NewStateMachine(INITIALIZING)]

InitGuard ==
    /\ sm = NewStateMachine(INITIALIZING)
    /\ sm_call = NoGuardCall
    /\ photon = None
    /\ conn = None
    /\ pm = None
    /\ meter = None
    /\ tracker = None

GuardAddTransition ==
    \E from_state \in SessionState, to_state \in SessionState,
       condition \in ConditionValues, action \in ActionValues :
        /\ "added" \notin DOMAIN sm
        /\ sm' = add_transition(sm, from_state, to_state, condition, action)
        /\ sm_call' = [op |-> "add_transition", arg |-> to_state, ret |-> TRUE,
                       action_ran |-> FALSE, before |-> sm]
        /\ UNCHANGED <<billVars, connVars, meterVars, trackVars>>

GuardTransitionTo ==
    \E target \in SessionState :
        /\ Len(sm.state_history) < MaxHistory
        /\ LET r == transition_to(sm, target, "")
           IN /\ sm' = r[2]
              /\ sm_call' = [op |-> "transition_to", arg |-> target,
                             ret |-> r[1], action_ran |-> r[3], before |-> sm]
        /\ UNCHANGED <<billVars, connVars, meterVars, trackVars>>

NextGuard == GuardAddTransition \/ GuardTransitionTo

SpecGuard == InitGuard /\ [][NextGuard]_vars

\* The transition that a transition_to(target) on machine m uses: the first
\* of the table from m's state to the target (defined when there is one)
UsedTransition(m, target) == Transitions(m)[FindTransition(m, target)]

\* C26: when the condition of the transition returns false or raises, or
\* its action raises, transition_to returns false and the current state and
\* the history are as before the call; the action is not called when the
\* condition fails.
C26_NoPartialTransition ==
    (sm_call.op = "transition_to" /\ FindTransition(sm_call.before, sm_call.arg) # 0) =>
        LET t == UsedTransition(sm_call.before, sm_call.arg)
        IN /\ t.condition \in {"false", "raise"} =>
                 /\ ~sm_call.ret
                 /\ ~sm_call.action_ran
                 /\ sm = sm_call.before
           /\ (t.condition \in {None, "true"} /\ t.action = "raise") =>
                 /\ ~sm_call.ret
                 /\ sm = sm_call.before

\* C26 witness: in ERROR, a transition to PROCESSING added with a condition
\* that raises and an action has been attempted
C26_Witness ==
    /\ sm_call.op = "transition_to"
    /\ sm_call.before.current_state = ERROR
    /\ sm_call.arg = PROCESSING
    /\ FindTransition(sm_call.before, PROCESSING) # 0
    /\ UsedTransition(sm_call.before, PROCESSING).condition = "raise"
    /\ UsedTransition(sm_call.before, PROCESSING).action = "ok"
    /\ sm.current_state = ERROR

\* C26 witness: the same with a condition that holds and an action that raises
C26_WitnessActionRaises ==
    /\ sm_call.op = "transition_to"
    /\ sm_call.before.current_state = ERROR
    /\ sm_call.arg = PROCESSING
    /\ FindTransition(sm_call.before, PROCESSING) # 0
    /\ UsedTransition(sm_call.before, PROCESSING).condition = "true"
    /\ UsedTransition(sm_call.before, PROCESSING).action = "raise"
    /\ sm_call.action_ran
    /\ sm.current_state = ERROR

\* C24: cleanup_completed_tools removes only records in a terminal status
\* (completed or failed) whose completion is older than the threshold: a
\* record that is executing is never removed, and the stored results of
\* the records kept are kept.
C24_CleanupOnlyTerminal ==
    tracker.last.op = "cleanup" =>
        LET before == tracker.last.before
            removed == DOMAIN before.active_tools \ DOMAIN tracker.tools.active_tools
        IN /\ DOMAIN tracker.tools.active_tools \subseteq DOMAIN before.active_tools
           /\ \A k \in removed :
                 /\ before.active_tools[k].status \in {"completed", "failed"}
                 /\ tracker.last.at - before.active_tools[k].completed_at
                       > tracker.last.max_age_seconds
           /\ \A k \in DOMAIN before.active_tools :
                 before.active_tools[k].status = "executing" =>
                     /\ k \in DOMAIN tracker.tools.active_tools
                     /\ tracker.tools.active_tools[k] = before.active_tools[k]
           /\ \A k \in DOMAIN tracker.tools.active_tools \cap DOMAIN before.tool_results :
                 /\ k \in DOMAIN tracker.tools.tool_results
                 /\ tracker.tools.tool_results[k] = before.tool_results[k]

\* C24 witness: a cleanup removed a completed record and kept an older
\* record that is executing
C24_Witness ==
    /\ tracker.last.op = "cleanup"
    /\ \E k \in DOMAIN tracker.last.before.active_tools :
          /\ k \notin DOMAIN tracker.tools.active_tools
          /\ tracker.last.before.active_tools[k].status = "completed"
          /\ \E e \in DOMAIN tracker.tools.active_tools :
                /\ tracker.tools.active_tools[e].status = "executing"
                /\ tracker.tools.active_tools[e].started_at
                      < tracker.last.before.active_tools[k].started_at

(***************************************************************************)
(* services/message_service.py: the event stream of a turn                 *)
(*                                                                         *)
(* A MessageService (one per connection) and the EventProcessor it was     *)
(* built with.  Every event of a turn carries the turn's EventContext,     *)
(* whose timestamp is taken once, when process_user_message starts.        *)
(* A function_call or function_response part of the runner is given by    *)
(* its name and its id, each a string or NoAttr when the object has no     *)
(* such attribute (the case getattr/hasattr of the code provide for); an   *)
(* id may also be NullId, the attribute being there with the value None.   *)
(* In the data of an event, None stands for a key that is absent, and      *)
(* NullId for the key 'tool_id' holding None.                              *)
(***************************************************************************)

NoAttr == "no attribute"
NullId == "null"

\* getattr(function_call, 'name', 'unknown')
part_tool_name(part) == IF part.name = NoAttr THEN "unknown" ELSE part.name

\* tool_id = getattr(function_call, 'id', tool_name)
call_tool_id(part) == IF part.id = NoAttr THEN part_tool_name(part) ELSE part.id

\* f"{tool_name}_response" for the tool names of the model
NameResponse(tool_name) ==
    CASE tool_name = "search" -> "search_response"
      [] tool_name = "unknown" -> "unknown_response"

\* response_id = f"{tool_name}_response", function_response.id if it has one
response_tool_id(part) ==
    IF part.id = NoAttr THEN NameResponse(part_tool_name(part)) ELSE part.id

\* MessageService.__init__ with a new EventProcessor, and the locals
\* seen_tool_calls, seen_tool_responses of _process_with_agent
NewMessageService ==
    [tools |-> NewToolEventProcessor,
     message_history |-> << >>,
     seen_tool_calls |-> {},
     seen_tool_responses |-> {},
     sent |-> << >>]

\* Mutant: every function_call part is recorded, seen before or not.
handle_tool_call_noDedup(ms, timestamp, part) ==
    LET tool_name == part_tool_name(part)
        tool_id == call_tool_id(part)
    IN [ms EXCEPT
          !.seen_tool_calls = @ \cup {tool_id},
          !.tools = process_tool_call_started(@, timestamp,
                        [tool_id |-> tool_id, name |-> tool_name, error |-> FALSE]),
          !.message_history = Append(@, [type |-> "tool", tool_id |-> tool_id,
                                         status |-> "processing"]),
          !.sent = Append(@, [type |-> "tool", tool_id |-> tool_id,
                              status |-> "executing"])]

\* MessageService._handle_tool_call: nothing for a tool id seen in this
\* turn; else the TOOL_CALL_STARTED event, a ToolMessage in the history and
\* a "tool" message to the frontend
handle_tool_call(ms, timestamp, part) ==
    LET tool_name == part_tool_name(part)
        tool_id == call_tool_id(part)
    IN IF tool_id \in ms.seen_tool_calls THEN ms
       ELSE [ms EXCEPT
               !.seen_tool_calls = @ \cup {tool_id},
               !.tools = process_tool_call_started(@, timestamp,
                             [tool_id |-> tool_id, name |-> tool_name,
                              error |-> FALSE]),
               !.message_history = Append(@, [type |-> "tool", tool_id |-> tool_id,
                                              status |-> "processing"]),
               !.sent = Append(@, [type |-> "tool", tool_id |-> tool_id,
                                   status |-> "executing"])]

\* MessageService._handle_tool_response: nothing for a response id seen in
\* this turn; else the TOOL_CALL_COMPLETED event (data without 'error'), a
\* ToolMessage in the history and a "tool" message to the frontend
handle_tool_response(ms, timestamp, part) ==
    LET tool_name == part_tool_name(part)
        response_id == response_tool_id(part)
    IN IF response_id \in ms.seen_tool_responses THEN ms
       ELSE [ms EXCEPT
               !.seen_tool_responses = @ \cup {response_id},
               !.tools = process_tool_call_completed(@, timestamp,
                             [tool_id |-> response_id, name |-> tool_name,
                              error |-> FALSE]),
               !.message_history = Append(@, [type |-> "tool", tool_id |-> response_id,
                                              status |-> "completed"]),
               !.sent = Append(@, [type |-> "tool", tool_id |-> response_id,
                                   status |-> "completed"])]

\* process_user_message up to the call of the runner: the event
\* TOOL_CALL_STARTED with data {'content', 'type'} (no 'tool_id', no
\* 'name'), the user message in the history, fresh seen_* sets
start_user_message(ms, timestamp) ==
    [ms EXCEPT
       !.tools = process_tool_call_started(@, timestamp,
                     [tool_id |-> None, name |-> None, error |-> FALSE]),
       !.message_history = Append(@, [type |-> "user", tool_id |-> None,
                                      status |-> None]),
       !.seen_tool_calls = {},
       !.seen_tool_responses = {},
       !.sent = << >>]

\* process_user_message after the stream: the assistant message in the
\* history; RESPONSE_GENERATED finds no entry in processing_messages
finish_user_message(ms) ==
    [ms EXCEPT !.message_history = Append(@, [type |-> "assistant", tool_id |-> None,
                                              status |-> None])]

(***************************************************************************)
(* SpecTurn: the turns of one MessageService                               *)
(***************************************************************************)

\* Bound on the turns and on the function_call / function_response parts
\* of all their streams
MaxStreamTurns == 2
MaxParts == 3

\* The parts a stream may carry
StreamParts ==
    { [name |-> "search", id |-> i] : i \in {NoAttr, NullId, "call_1"} }
       \cup { [name |-> NoAttr, id |-> NoAttr] }

NoPart == [op |-> None, part |-> None, before |-> NewMessageService]

InitTurn ==
    /\ tracker = [ms |-> NewMessageService, timestamp |-> 0, parts |-> 0,
                  phase |-> "idle", result |-> None, last |-> NoPart]
    /\ sm = None /\ sm_call = None /\ photon = None
    /\ conn = None /\ pm = None /\ meter = None

TurnStart ==
    /\ tracker.phase = "idle"
    /\ tracker.timestamp < MaxStreamTurns
    /\ tracker' = [tracker EXCEPT
                     !.ms = start_user_message(@, tracker.timestamp + 1),
                     !.timestamp = @ + 1,
                     !.phase = "stream",
                     !.result = None,
                     !.last = [op |-> "start", part |-> None, before |-> tracker.ms]]
    /\ UNCHANGED <<smVars, billVars, connVars, meterVars>>

TurnFunctionCall ==
    \E part \in StreamParts :
        /\ tracker.phase = "stream"
        /\ tracker.parts < MaxParts
        /\ tracker' = [tracker EXCEPT
                         !.ms = handle_tool_call(@, tracker.timestamp, part),
                         !.parts = @ + 1,
                         !.last = [op |-> "function_call", part |-> part,
                                   before |-> tracker.ms]]
        /\ UNCHANGED <<smVars, billVars, connVars, meterVars>>

TurnFunctionResponse ==
    \E part \in StreamParts :
        /\ tracker.phase = "stream"
        /\ tracker.parts < MaxParts
        /\ tracker' = [tracker EXCEPT
                         !.ms = handle_tool_response(@, tracker.timestamp, part),
                         !.parts = @ + 1,
                         !.last = [op |-> "function_response", part |-> part,
                                   before |-> tracker.ms]]
        /\ UNCHANGED <<smVars, billVars, connVars, meterVars>>

\* The stream ends: process_user_message returns success
TurnEnd ==
    /\ tracker.phase = "stream"
    /\ tracker' = [tracker EXCEPT
                     !.ms = finish_user_message(@),
                     !.phase = "idle",
                     !.result = "success",
                     !.last = [op |-> "end", part |-> None, before |-> tracker.ms]]
    /\ UNCHANGED <<smVars, billVars, connVars, meterVars>>

\* The runner raises: the except branch of process_user_message returns
\* failure (ERROR_OCCURRED finds no entry in processing_messages)
TurnRaise ==
    /\ tracker.phase = "stream"
    /\ tracker' = [tracker EXCEPT
                     !.phase = "idle",
                     !.result = "failure",
                     !.last = [op |-> "raise", part |-> None, before |-> tracker.ms]]
    /\ UNCHANGED <<smVars, billVars, connVars, meterVars>>

NextTurn ==
    \/ TurnStart
    \/ TurnFunctionCall
    \/ TurnFunctionResponse
    \/ TurnEnd
    \/ TurnRaise

SpecTurn == InitTurn /\ [][NextTurn]_vars

(***************************************************************************)
(* Properties of the event stream of a turn (SpecTurn)                     *)
(***************************************************************************)

\* The records of the processor that were created in the current turn
RecordsOfTurn(t, timestamp) ==
    { k \in DOMAIN t.active_tools : t.active_tools[k].started_at = timestamp }

\* C21: a function_call part whose tool id already has a record of the same
\* turn changes neither that record nor any other, nor the stored results,
\* whatever the status of the record; when the id was seen as a call in
\* this turn nothing at all is done.
C21_StartedAgainIsNoOp ==
    tracker.last.op = "function_call" =>
        LET before == tracker.last.before
            tool_id == call_tool_id(tracker.last.part)
        IN /\ tool_id \in RecordsOfTurn(before.tools, tracker.timestamp) =>
                 tracker.ms.tools = before.tools
           /\ tool_id \in before.seen_tool_calls => tracker.ms = before

\* C21 witness: "call_1" was started and completed in this turn, and a
\* function_call part with id "call_1" has arrived again
C21_Witness ==
    /\ tracker.last.op = "function_call"
    /\ tracker.last.part.id = "call_1"
    /\ "call_1" \in RecordsOfTurn(tracker.last.before.tools, tracker.timestamp)
    /\ tracker.last.before.tools.active_tools["call_1"].status = "completed"
    /\ tracker.ms.tools.active_tools["call_1"].status = "completed"

\* C22: a function_response part whose response id has no record is
\* dropped by the processor: the active records and the stored results are
\* as before, the turn goes on and no "error" message is among those sent;
\* a failed event for an id without a record leaves the processor
\* unchanged as well.
C22_UnknownCompletionDropped ==
    /\ (/\ tracker.last.op = "function_response"
        /\ response_tool_id(tracker.last.part)
              \notin DOMAIN tracker.last.before.tools.active_tools) =>
           /\ tracker.ms.tools = tracker.last.before.tools
           /\ tracker.phase = "stream"
           /\ tracker.result = None
           /\ \A i \in 1..Len(tracker.ms.sent) : tracker.ms.sent[i].type # "error"
    /\ \A data \in ToolEventData :
          event_tool_id(data) \notin DOMAIN tracker.ms.tools.active_tools =>
              /\ process_tool_call_failed(tracker.ms.tools, tracker.timestamp, data)
                    = tracker.ms.tools
              /\ process_tool_call_completed(tracker.ms.tools, tracker.timestamp, data)
                    = tracker.ms.tools

\* C22 witness: a response with id "call_1" arrived in a turn in which no
\* call with that id was started
C22_Witness ==
    /\ tracker.last.op = "function_response"
    /\ tracker.last.part.id = "call_1"
    /\ "call_1" \notin DOMAIN tracker.last.before.tools.active_tools
    /\ "call_1" \notin DOMAIN tracker.ms.tools.active_tools
    /\ tracker.ms.sent # << >>
    /\ tracker.ms.sent[Len(tracker.ms.sent)].tool_id = "call_1"

\* C23: when the parts of the runner carry no id, the start and the
\* completion of a tool call are filed under the tool name, so after the
\* function_call part followed by the function_response part of a tool the
\* record of that tool is completed or failed, not executing.
C23_NameCorrelates ==
    (/\ tracker.last.op = "function_response"
     /\ tracker.last.part.id \in {NoAttr, NullId}
     /\ tracker.last.before.seen_tool_calls \cap {part_tool_name(tracker.last.part), NullId} # {}
     /\ part_tool_name(tracker.last.part) \in DOMAIN tracker.last.before.tools.active_tools) =>
        /\ response_tool_id(tracker.last.part) = part_tool_name(tracker.last.part)
        /\ tracker.ms.tools.active_tools[part_tool_name(tracker.last.part)].status
              \in {"completed", "failed"}

(***************************************************************************)
(* Properties of the sessions of one connection (SpecConn)                 *)
(***************************************************************************)

\* C28: as long as the connection is registered, its current-session
\* pointer names a session that is in its session map.
C28_CurrentSessionInMap ==
    conn.active => conn.current_session_id \in SeqToSet(conn.sessions)

\* C29: a session whose runner initialisation is still pending is in the
\* session map as soon as it was created, with a state machine in
\* INITIALIZING and without a runner; a runner appears for a session only
\* in the step in which its initialisation completes successfully.
C29_VisibleBeforeRunner ==
    /\ [](\A id \in SessionIds :
             (conn.init[id] = "pending" /\ id \in SeqToSet(conn.sessions)) =>
                 /\ id \in DOMAIN conn.machines
                 /\ conn.machines[id].current_state = INITIALIZING
                 /\ id \notin conn.runners)
    /\ [][conn'.next_id # conn.next_id =>
             /\ conn'.next_id \in SeqToSet(conn'.sessions)
             /\ conn'.next_id \notin SeqToSet(conn.sessions)
             /\ conn'.init[conn'.next_id] = "pending"
             /\ conn'.next_id \notin conn'.runners]_vars
    /\ [][\A id \in SessionIds :
             (id \notin conn.runners /\ id \in conn'.runners) =>
                 /\ conn.init[id] = "pending"
                 /\ conn'.init[id] = "done"]_vars

\* C29 witness: a second session was created and is current, it is listed
\* and INITIALIZING without a runner, while the first session has its runner
C29_Witness ==
    /\ conn.next_id = 2
    /\ conn.current_session_id = 2
    /\ 2 \in SeqToSet(conn.sessions)
    /\ conn.init[2] = "pending"
    /\ conn.machines[2].current_state = INITIALIZING
    /\ 2 \notin conn.runners
    /\ 1 \in conn.runners
    /\ conn.outbox = <<"sessions_list", "session_messages">>

(***************************************************************************)
(* websocket-server.py: process_message of the server before the           *)
(* refactoring, which consumes the runner's events itself                  *)
(*                                                                         *)
(* conn is the connection (transport, registration, runner of the current  *)
(* session, position of websocket_endpoint), pm the frame of               *)
(* process_message with the log of the sends of the turn: a message and    *)
(* whether the transport took it.                                          *)
(***************************************************************************)

\* send_to_connection: <<connection after, log after>>.  A send that
\* raises is caught, and the connection is unregistered.
legacy_send_to_connection(c, sent, type, status) ==
    IF c.ws = "open"
    THEN << c, Append(sent, [type |-> type, status |-> status, delivered |-> TRUE]) >>
    ELSE << [c EXCEPT !.active = FALSE],
            Append(sent, [type |-> type, status |-> status, delivered |-> FALSE]) >>

\* Mutant: the assistant reply is the last message of the turn.
legacy_finish_noMarker(c, sent, final_response, drop) ==
    IF final_response
    THEN legacy_send_to_connection(c, sent, "assistant", None)
    ELSE << c, sent >>

\* process_message after the stream (lines 529-612): the assistant message
\* when the events held a final response, then the complete marker.  The
\* peer may go away while the first send is awaited (drop).
legacy_finish(c, sent, final_response, drop) ==
    LET a == IF final_response
             THEN legacy_send_to_connection(c, sent, "assistant", None)
             ELSE << c, sent >>
        c1 == IF drop THEN [a[1] EXCEPT !.ws = "dropped"] ELSE a[1]
    IN legacy_send_to_connection(c1, a[2], "complete", None)

LegacyIdle ==
    [pc |-> "idle", seen_tool_calls |-> {}, seen_tool_responses |-> {},
     sent |-> << >>, outcome |-> None]

\* connect_client has run; the runner of the default session is not there yet
InitLegacy ==
    /\ conn = [ws |-> "open", active |-> TRUE, runner_ready |-> FALSE,
               ep |-> "recv", turns |-> 0, parts |-> 0]
    /\ pm = LegacyIdle
    /\ sm = None /\ sm_call = None /\ photon = None
    /\ meter = None /\ tracker = None

\* The background task _init_session_runner completes
LegacyInitRunnerDone ==
    /\ ~conn.runner_ready
    /\ conn' = [conn EXCEPT !.runner_ready = TRUE]
    /\ UNCHANGED <<pm, smVars, billVars, meterVars, trackVars>>

\* The peer goes away
LegacyClientDrop ==
    /\ conn.ws = "open"
    /\ conn' = [conn EXCEPT !.ws = "dropped"]
    /\ UNCHANGED <<pm, smVars, billVars, meterVars, trackVars>>

\* receive_json raises: the endpoint unregisters the connection and returns
LegacyReceiveFails ==
    /\ conn.ep = "recv"
    /\ conn.ws # "open"
    /\ conn' = [conn EXCEPT !.active = FALSE, !.ep = "exited"]
    /\ UNCHANGED <<pm, smVars, billVars, meterVars, trackVars>>

\* {"type": "message"}: process_message up to the call of the runner.  When
\* the polling loop ends without a runner the error message is sent with
\* websocket.send_json, which raises into the endpoint if the peer went
\* away during the loop (drop).
LegacyRecvMessage ==
    \E drop \in BOOLEAN :
        /\ conn.ep = "recv"
        /\ conn.ws = "open"
        /\ conn.turns < MaxStreamTurns
        /\ IF conn.runner_ready
           THEN /\ ~drop
                /\ conn' = [conn EXCEPT !.ep = "message", !.turns = @ + 1]
                /\ pm' = [LegacyIdle EXCEPT !.pc = "stream"]
           ELSE IF drop
           THEN /\ conn' = [conn EXCEPT !.ws = "dropped", !.active = FALSE,
                                        !.ep = "exited", !.turns = @ + 1]
                /\ pm' = [LegacyIdle EXCEPT !.outcome = "raised"]
           ELSE /\ conn' = [conn EXCEPT !.turns = @ + 1]
                /\ pm' = [LegacyIdle EXCEPT
                            !.sent = <<[type |-> "error", status |-> None,
                                        delivered |-> TRUE]>>,
                            !.outcome = "not_ready"]
        /\ UNCHANGED <<smVars, billVars, meterVars, trackVars>>

\* A function_call part of the stream (lines 410-434)
LegacyFunctionCall ==
    \E part \in StreamParts :
        /\ pm.pc = "stream"
        /\ conn.parts < MaxParts
        /\ IF call_tool_id(part) \in pm.seen_tool_calls
           THEN /\ conn' = [conn EXCEPT !.parts = @ + 1]
                /\ pm' = pm
           ELSE LET r == legacy_send_to_connection(conn, pm.sent, "tool", "executing")
                IN /\ conn' = [r[1] EXCEPT !.parts = @ + 1]
                   /\ pm' = [pm EXCEPT !.seen_tool_calls = @ \cup {call_tool_id(part)},
                                       !.sent = r[2]]
        /\ UNCHANGED <<smVars, billVars, meterVars, trackVars>>

\* A function_response part of the stream (lines 437-492)
LegacyFunctionResponse ==
    \E part \in StreamParts :
        /\ pm.pc = "stream"
        /\ conn.parts < MaxParts
        /\ IF response_tool_id(part) \in pm.seen_tool_responses
           THEN /\ conn' = [conn EXCEPT !.parts = @ + 1]
                /\ pm' = pm
           ELSE LET r == legacy_send_to_connection(conn, pm.sent, "tool", "completed")
                IN /\ conn' = [r[1] EXCEPT !.parts = @ + 1]
                   /\ pm' = [pm EXCEPT
                               !.seen_tool_responses = @ \cup {response_tool_id(part)},
                               !.sent = r[2]]
        /\ UNCHANGED <<smVars, billVars, meterVars, trackVars>>

\* The stream ends: the rest of the try block
LegacyStreamEnds ==
    \E final_response \in BOOLEAN, drop \in BOOLEAN :
        /\ pm.pc = "stream"
        /\ LET r == legacy_finish(conn, pm.sent, final_response, drop)
           IN /\ conn' = [r[1] EXCEPT !.ep = "recv"]
              /\ pm' = [pm EXCEPT !.pc = "idle", !.sent = r[2], !.outcome = "turn_ok"]
        /\ UNCHANGED <<smVars, billVars, meterVars, trackVars>>

\* The runner raises: "except Exception" sends the error message with
\* websocket.send_json; if that raises, the endpoint unregisters the
\* connection and returns
LegacyRunnerRaises ==
    /\ pm.pc = "stream"
    /\ IF conn.ws = "open"
       THEN /\ conn' = [conn EXCEPT !.ep = "recv"]
            /\ pm' = [pm EXCEPT !.pc = "idle", !.outcome = "turn_exception",
                                !.sent = Append(@, [type |-> "error", status |-> None,
                                                    delivered |-> TRUE])]
       ELSE /\ conn' = [conn EXCEPT !.active = FALSE, !.ep = "exited"]
            /\ pm' = [pm EXCEPT !.pc = "idle", !.outcome = "raised",
                                !.sent = Append(@, [type |-> "error", status |-> None,
                                                    delivered |-> FALSE])]
    /\ UNCHANGED <<smVars, billVars, meterVars, trackVars>>

NextLegacy ==
    \/ LegacyInitRunnerDone
    \/ LegacyClientDrop
    \/ LegacyReceiveFails
    \/ LegacyRecvMessage
    \/ LegacyFunctionCall
    \/ LegacyFunctionResponse
    \/ LegacyStreamEnds
    \/ LegacyRunnerRaises

SpecLegacy == InitLegacy /\ [][NextLegacy]_vars

\* C30: among the messages process_message sends for a turn, nothing is
\* sent after the complete marker (so there is one marker at most), and
\* every assistant message is followed by the marker, which is the next
\* message; when the transport is still open at the end, the marker was
\* taken by it.
C30_AssistantThenComplete ==
    LET s == pm.sent
    IN /\ \A i \in 1..Len(s) : s[i].type = "complete" => i = Len(s)
       /\ \A i \in 1..Len(s) :
             s[i].type = "assistant" =>
                 /\ i + 1 = Len(s)
                 /\ s[i + 1].type = "complete"
                 /\ conn.ws = "open" => s[i + 1].delivered

\* C30 witness: a turn with a tool call and its response ended with the
\* assistant message and the marker, all taken by the transport
C30_Witness ==
    /\ pm.pc = "idle"
    /\ Len(pm.sent) = 4
    /\ pm.sent[1].type = "tool" /\ pm.sent[1].status = "executing"
    /\ pm.sent[2].type = "tool" /\ pm.sent[2].status = "completed"
    /\ pm.sent[3].type = "assistant"
    /\ pm.sent[4].type = "complete"
    /\ \A i \in 1..4 : pm.sent[i].delivered

\* C37: CLOSED is terminal under every operation: once the machine is in
\* CLOSED, no transition_to and no reset_to_state call changes its state.
C37_ClosedIsTerminal ==
    [][sm.current_state = CLOSED => sm'.current_state = CLOSED]_vars

\* C38: the records of the active-tool map come from the tool calls of the
\* runner only: when a turn starts, before any part of the stream, the map
\* is as the turn found it.
C38_OnlyRunnerToolCalls ==
    tracker.last.op = "start" =>
        tracker.ms.tools.active_tools = tracker.last.before.tools.active_tools

\* C35: a charge whose backend debit fails (non-zero code, timeout or
\* transport failure) leaves the carried value as it was before the call.
C35_FailedChargeKeepsCarried ==
    (photon.last.made /\ photon.last.request.sent /\ ~photon.last.result.success)
        => photon.accumulated_cost = photon.last.before

(***************************************************************************)
(* SpecCarry: one PhotonService charged again and again for the same       *)
(* usage, a credential being available at every call                       *)
(***************************************************************************)

\* Bound on the calls of a sequence: nine calls of the cheapest usage
\* (50 output tokens, 0.0012 RMB) reach one photon
MaxCarryCalls == 9

\* Usages with a strictly positive raw cost: below one photon (0.12 and
\* 0.18 photon), and above (1.2 photon)
CarryUsageValues == {<<0, 50, 0>>, <<100, 50, 0>>, <<2000, 0, 0>>}

\* A new service, with the usage of the calls to come
NewCarryService(min_charge, dev_access_key, usage) ==
    LET p == NewPhotonService(min_charge, dev_access_key)
    IN [f \in (DOMAIN p) \cup {"usage"} |-> IF f = "usage" THEN usage ELSE p[f]]

InitCarry ==
    /\ \E mc \in MinChargeValues, dk \in DevAccessKeyValues, u \in CarryUsageValues :
           photon = NewCarryService(mc, dk, u)
    /\ sm = None /\ sm_call = None
    /\ conn = None /\ pm = None
    /\ meter = None /\ tracker = None

CarryCharge ==
    \E ck \in ContextKeyValues, outcome \in BackendOutcomes :
        /\ photon.n_charges < MaxCarryCalls
        /\ get_access_key(None, ck, photon.dev_access_key) # None
        /\ LET u == photon.usage
           IN photon' = AfterCharge(photon,
                            charge_photon(photon, u[1], u[2], u[3], None, ck, outcome),
                            u[1], u[2], u[3], ck, outcome)
        /\ UNCHANGED <<smVars, connVars, meterVars, trackVars>>

NextCarry == CarryCharge

\* The calls keep coming: the hypothesis of a sequence of charge calls
SpecCarry == InitCarry /\ [][NextCarry]_vars /\ WF_vars(CarryCharge)

\* C31: a call that bills nothing adds its raw cost to the carried value,
\* so of a sequence of calls of the same strictly positive raw cost one
\* eventually bills at least one photon.
C31_FractionsAddUp ==
    /\ []((photon.last.made /\ ~photon.last.request.sent) =>
             photon.accumulated_cost = photon.last.before + photon.last.raw)
    /\ [](photon.n_charges * RawCost(photon.usage[1], photon.usage[2], photon.usage[3])
             >= PhotonToRmbRate => photon.sum_billed >= 1)
    /\ <>(photon.last.request.sent /\ photon.last.request.event_value >= 1)

\* C31 witness: the sixth call of 100 input and 50 output tokens is the
\* first that bills, the five before it left their fractions behind
C31_Witness ==
    /\ photon.usage = <<100, 50, 0>>
    /\ photon.n_charges = 6
    /\ photon.last.request.sent
    /\ photon.last.before = 5 * 1800
    /\ photon.sum_billed = photon.last.request.event_value

(***************************************************************************)
(* The final text of a turn: MessageService._extract_final_response and    *)
(* the scan of the original server's process_message                       *)
(*                                                                         *)
(* An event is a record of the attributes the scan reads: content (a       *)
(* record of parts and text, "present" telling whether the event has a     *)
(* content that is true), text, output and message.  None is an attribute  *)
(* that is missing, None or empty: the scan tests every one with           *)
(* "hasattr(x, a) and x.a".  A part is its text, None for a part without   *)
(* text (a function call or a function response).  A text is the sequence  *)
(* of its lines, so that '\n'.join(text_parts) is the sequence of the      *)
(* parts' texts; the empty sequence is no text.                            *)
(***************************************************************************)

\* The texts of the parts that have one, in order
TextParts(parts) == SelectSeq(parts, LAMBDA p : p # None)

NoResponseGenerated == <<"No response generated">>

\* The body of the loop for one event: the text it returns, << >> when the
\* loop goes on to the event before
ExtractFromEvent(event) ==
    IF event.content.present
    THEN IF event.content.parts # << >>
         THEN TextParts(event.content.parts)
         ELSE IF event.content.text # None
         THEN <<event.content.text>>
         ELSE << >>
    ELSE IF event.text # None THEN <<event.text>>
    ELSE IF event.output # None THEN <<event.output>>
    ELSE IF event.message # None THEN <<event.message>>
    ELSE << >>

\* "for event in reversed(events)" over the first n events: the text of
\* the latest event whose body returns, << >> when the loop runs out
RECURSIVE ScanBackward(_, _)
ScanBackward(events, n) ==
    IF n = 0 THEN << >>
    ELSE IF ExtractFromEvent(events[n]) # << >>
    THEN ExtractFromEvent(events[n])
    ELSE ScanBackward(events, n - 1)

\* MessageService._extract_final_response
extract_final_response(events) ==
    IF ScanBackward(events, Len(events)) # << >>
    THEN ScanBackward(events, Len(events))
    ELSE NoResponseGenerated

\* The scan of the original server: final_response stays None (<< >>) when
\* the loop runs out, and a placeholder is sent instead
legacy_final_response(events) == ScanBackward(events, Len(events))

(***************************************************************************)
(* SpecExtract: the scan applied to a stream of events                     *)
(***************************************************************************)

\* Bound on the events of a stream
MaxEvents == 2

\* No content; a content with no parts, with a part without text, with
\* text parts; a content with a text of its own
ContentValues ==
    [present : {FALSE}, parts : {<< >>}, text : {None}] \cup
    [present : {TRUE}, parts : {<< >>, <<None>>, <<"a">>, <<"a", None, "b">>},
     text : {None}] \cup
    [present : {TRUE}, parts : {<< >>}, text : {"c"}]

EventValues ==
    [content : ContentValues, text : {None, "t"},
     output : {None, "o"}, message : {None, "m"}]

EventStreams == UNION { [1..n -> EventValues] : n \in 0..MaxEvents }

InitExtract ==
    /\ \E events \in EventStreams :
           tracker = [events |-> events, done |-> FALSE, result |-> << >>,
                      legacy_done |-> FALSE, legacy_result |-> << >>]
    /\ sm = None /\ sm_call = None /\ photon = None
    /\ conn = None /\ pm = None /\ meter = None

\* _process_with_agent: final_response = self._extract_final_response(all_events)
ExtractFinalResponse ==
    /\ ~tracker.done
    /\ tracker' = [tracker EXCEPT !.done = TRUE,
                                  !.result = extract_final_response(tracker.events)]
    /\ UNCHANGED <<smVars, billVars, connVars, meterVars>>

\* The original server's scan over the same stream
LegacyFinalResponse ==
    /\ ~tracker.legacy_done
    /\ tracker' = [tracker EXCEPT !.legacy_done = TRUE,
                                  !.legacy_result = legacy_final_response(tracker.events)]
    /\ UNCHANGED <<smVars, billVars, connVars, meterVars>>

NextExtract == ExtractFinalResponse \/ LegacyFinalResponse

SpecExtract == InitExtract /\ [][NextExtract]_vars

\* The sources of text of one event in the order of preference: the text
\* parts, the plain text (of the content, then of the event), the output,
\* the message; << >> for an event that offers none
OfferedText(event) ==
    IF event.content.present /\ TextParts(event.content.parts) # << >>
    THEN TextParts(event.content.parts)
    ELSE IF event.content.present /\ event.content.text # None
    THEN <<event.content.text>>
    ELSE IF event.text # None THEN <<event.text>>
    ELSE IF event.output # None THEN <<event.output>>
    ELSE IF event.message # None THEN <<event.message>>
    ELSE << >>

\* The text of the most recent event that offers any
RECURSIVE LatestOfferedText(_, _)
LatestOfferedText(events, n) ==
    IF n = 0 THEN << >>
    ELSE IF OfferedText(events[n]) # << >> THEN OfferedText(events[n])
    ELSE LatestOfferedText(events, n - 1)

\* C40: the final text of a turn is that of the most recent event offering
\* any non-empty text (text parts, plain text, output, message, in that
\* order within the event); a stream with no such event yields no real text.
C40_LatestOfferingEventWins ==
    /\ tracker.done =>
          tracker.result =
              IF LatestOfferedText(tracker.events, Len(tracker.events)) # << >>
              THEN LatestOfferedText(tracker.events, Len(tracker.events))
              ELSE NoResponseGenerated
    /\ tracker.legacy_done =>
          tracker.legacy_result =
              LatestOfferedText(tracker.events, Len(tracker.events))

====
